---------------------------- MODULE Spec2Model ----------------------------
(***************************************************************************)
(* Event normalization and labelling of the ranch camera dashboard:        *)
(*   - the load pipeline of streamlit_app.py (normalize columns, normalize *)
(*     event type and species, derive the event type, clean the camera),  *)
(*   - prep_df of data_prep.py (event type, wildlife label, event id).     *)
(*                                                                         *)
(* A cell of the events table is a Python str, modelled as a sequence of   *)
(* one-character strings, so that strip, lower, substring tests and split  *)
(* are computed character by character as the code computes them.          *)
(***************************************************************************)
EXTENDS Integers, Sequences, FiniteSets, TLC

VARIABLES
    raw,    \* the events table as read from events.csv (a sequence of rows)
    df,     \* the table of streamlit_app.py while its load pipeline runs
    out,    \* the table returned by prep_df(raw); <<>> before the call
    pc,     \* position of the streamlit_app.py script
    widgets,  \* the widget state of the session (what the user has set)
    crit,   \* the values the sidebar widgets returned; Null before the sidebar
    base,   \* the table the filters selected; <<>> before the filters
    ui,     \* what ui_components.py made of the table of prep_df; Null before
    columns,  \* the column order of the tables raw, df and out
    drive,  \* the folders and files of the Google Drive
    walk,   \* the locals of _list_drive_files_recursive, with its requests
    page,   \* what streamlit_app.py showed below the filters; Null before
    session,  \* the cache of thumbnails (st.cache_data) and the files whose
              \* download has failed so far
    gallery_limit \* st.session_state.gallery_limit, 0 when the key is not set

vars == <<raw, df, out, pc, widgets, crit, base, ui, columns, drive, walk, page, session,
          gallery_limit>>

---------------------------------------------------------------------------
(* Bounds of the model *)

\* longest run of whitespace put before and after a raw event type
MaxPad == 1
\* most segments of a semicolon-delimited raw species string
MaxSegs == 3
\* most rows of the table when rows are compared with each other
MaxRows == 2
\* most distinct species of the table when the charts fold species
MaxLabels == 11
\* most deer sightings of the table when the gallery is paged
MaxGallery == 17

---------------------------------------------------------------------------
(* Python str operations *)

Whitespace == {" ", "\t", "\n"}

Lower(c) ==
    CASE c = "A" -> "a" [] c = "B" -> "b" [] c = "C" -> "c" [] c = "D" -> "d"
      [] c = "E" -> "e" [] c = "F" -> "f" [] c = "G" -> "g" [] c = "H" -> "h"
      [] c = "I" -> "i" [] c = "J" -> "j" [] c = "K" -> "k" [] c = "L" -> "l"
      [] c = "M" -> "m" [] c = "N" -> "n" [] c = "O" -> "o" [] c = "P" -> "p"
      [] c = "Q" -> "q" [] c = "R" -> "r" [] c = "S" -> "s" [] c = "T" -> "t"
      [] c = "U" -> "u" [] c = "V" -> "v" [] c = "W" -> "w" [] c = "X" -> "x"
      [] c = "Y" -> "y" [] c = "Z" -> "z" [] OTHER -> c

\* str.lower()
LowerStr(s) == [i \in 1..Len(s) |-> Lower(s[i])]

RECURSIVE LStrip(_)
LStrip(s) ==
    IF s # <<>> /\ Head(s) \in Whitespace THEN LStrip(Tail(s)) ELSE s

RECURSIVE RStrip(_)
RStrip(s) ==
    IF s # <<>> /\ s[Len(s)] \in Whitespace
    THEN RStrip(SubSeq(s, 1, Len(s) - 1))
    ELSE s

\* str.strip()
Strip(s) == RStrip(LStrip(s))

\* sub in s
Contains(s, sub) ==
    \E i \in 1..(Len(s) - Len(sub) + 1) : SubSeq(s, i, i + Len(sub) - 1) = sub

\* s.split(";"): the segments between the semicolons, empty ones included
RECURSIVE Split(_)
Split(s) ==
    IF \E i \in 1..Len(s) : s[i] = ";"
    THEN LET i == CHOOSE k \in 1..Len(s) :
                      s[k] = ";" /\ \A j \in 1..(k - 1) : s[j] # ";"
         IN  <<SubSeq(s, 1, i - 1)>> \o Split(SubSeq(s, i + 1, Len(s)))
    ELSE <<s>>

IsDigit(c) == c \in {"0", "1", "2", "3", "4", "5", "6", "7", "8", "9"}

DigitValue(c) ==
    CASE c = "0" -> 0 [] c = "1" -> 1 [] c = "2" -> 2 [] c = "3" -> 3
      [] c = "4" -> 4 [] c = "5" -> 5 [] c = "6" -> 6 [] c = "7" -> 7
      [] c = "8" -> 8 [] c = "9" -> 9

RECURSIVE DecimalValue(_)
DecimalValue(s) ==
    IF s = <<>> THEN 0
    ELSE 10 * DecimalValue(SubSeq(s, 1, Len(s) - 1)) + DigitValue(s[Len(s)])

\* A numeric cell is <<v>>; a null (NaN) cell is <<>>.
Null == <<>>

\* pd.to_numeric(..., errors="coerce") on the cells the model draws: an
\* unsigned decimal integer is its value, an empty or non-numeric cell is null.
ToNumeric(s) ==
    IF s # <<>> /\ \A i \in 1..Len(s) : IsDigit(s[i])
    THEN <<DecimalValue(s)>>
    ELSE Null

Upper(c) ==
    CASE c = "a" -> "A" [] c = "b" -> "B" [] c = "c" -> "C" [] c = "d" -> "D"
      [] c = "e" -> "E" [] c = "f" -> "F" [] c = "g" -> "G" [] c = "h" -> "H"
      [] c = "i" -> "I" [] c = "j" -> "J" [] c = "k" -> "K" [] c = "l" -> "L"
      [] c = "m" -> "M" [] c = "n" -> "N" [] c = "o" -> "O" [] c = "p" -> "P"
      [] c = "q" -> "Q" [] c = "r" -> "R" [] c = "s" -> "S" [] c = "t" -> "T"
      [] c = "u" -> "U" [] c = "v" -> "V" [] c = "w" -> "W" [] c = "x" -> "X"
      [] c = "y" -> "Y" [] c = "z" -> "Z" [] OTHER -> c

\* str.capitalize()
Capitalize(s) ==
    [i \in 1..Len(s) |-> IF i = 1 THEN Upper(s[i]) ELSE Lower(s[i])]

---------------------------------------------------------------------------
(* Timestamps: <<year, month, day, hour, minute>>, or Null (NaT) *)

IsLeap(y) == (y % 4 = 0 /\ y % 100 # 0) \/ y % 400 = 0

DaysInMonth(y, m) ==
    IF m = 2 THEN (IF IsLeap(y) THEN 29 ELSE 28)
    ELSE IF m \in {4, 6, 9, 11} THEN 30
    ELSE 31

AllDigits(s) == \A i \in 1..Len(s) : IsDigit(s[i])

\* pd.to_datetime(..., errors="coerce") on the cells the model draws: the
\* camera stamp "MM/DD/YYYY HH:MM AM" (or PM) of a calendar date and a
\* 12-hour time is that timestamp; any other cell drawn is null.
ToDatetime(s) ==
    IF /\ Len(s) = 19
       /\ s[3] = "/" /\ s[6] = "/" /\ s[11] = " " /\ s[14] = ":" /\ s[17] = " "
       /\ AllDigits(SubSeq(s, 1, 2)) /\ AllDigits(SubSeq(s, 4, 5))
       /\ AllDigits(SubSeq(s, 7, 10)) /\ AllDigits(SubSeq(s, 12, 13))
       /\ AllDigits(SubSeq(s, 15, 16))
       /\ SubSeq(s, 18, 19) \in {<<"A", "M">>, <<"P", "M">>}
    THEN LET m == DecimalValue(SubSeq(s, 1, 2))
             d == DecimalValue(SubSeq(s, 4, 5))
             y == DecimalValue(SubSeq(s, 7, 10))
             h == DecimalValue(SubSeq(s, 12, 13))
             mi == DecimalValue(SubSeq(s, 15, 16))
             pm == s[18] = "P"
         IN  IF /\ m \in 1..12
                /\ d \in 1..DaysInMonth(y, m)
                /\ h \in 1..12
                /\ mi \in 0..59
             THEN <<y, m, d, (h % 12) + (IF pm THEN 12 ELSE 0), mi>>
             ELSE Null
    ELSE Null

\* Series.dt.date
DateOf(dt) == <<dt[1], dt[2], dt[3]>>

Digit(n) == <<"0", "1", "2", "3", "4", "5", "6", "7", "8", "9">>[n + 1]

\* a number below 100 as two digits
TwoDigits(n) == <<Digit(n \div 10), Digit(n % 10)>>

MonthAbbr(m) ==
    << <<"J","a","n">>, <<"F","e","b">>, <<"M","a","r">>, <<"A","p","r">>, <<"M","a","y">>, <<"J","u","n">>,
       <<"J","u","l">>, <<"A","u","g">>, <<"S","e","p">>, <<"O","c","t">>, <<"N","o","v">>, <<"D","e","c">> >>[m]

\* dt.strftime("%b %d %I:%M %p")
Strftime(dt) ==
    LET h12 == IF dt[4] % 12 = 0 THEN 12 ELSE dt[4] % 12
    IN  MonthAbbr(dt[2]) \o <<" ">> \o TwoDigits(dt[3]) \o <<" ">> \o TwoDigits(h12)
            \o <<":">> \o TwoDigits(dt[5]) \o <<" ">>
            \o (IF dt[4] < 12 THEN <<"A", "M">> ELSE <<"P", "M">>)

---------------------------------------------------------------------------
(* String literals of the source *)

EMPTY == <<>>
HUMAN == <<"h","u","m","a","n">>
VEHICLE == <<"v","e","h","i","c","l","e">>
ANIMAL == <<"a","n","i","m","a","l">>
PERSON == <<"p","e","r","s","o","n">>
PEOPLE == <<"p","e","o","p","l","e">>
BLANK == <<"b","l","a","n","k">>
NONE == <<"n","o","n","e">>
NAN == <<"n","a","n">>
OTHER_LABEL == <<"O","t","h","e","r">>
UNKNOWN == <<"u","n","k","n","o","w","n">>

---------------------------------------------------------------------------
(* streamlit_app.py: cleaning helpers *)

_safe_str(x) == Strip(x)

\* a variant that takes the first non-empty segment
AfterLastSemicolon_First(s0) ==
    LET s == Strip(s0)
        segs == Split(s)
        parts == SelectSeq([i \in 1..Len(segs) |-> Strip(segs[i])],
                           LAMBDA p : p # <<>>)
    IN  IF s = <<>> THEN EMPTY
        ELSE IF parts # <<>> THEN parts[1] ELSE s

_after_last_semicolon(s0) ==
    LET s == Strip(s0)
        segs == Split(s)
        parts == SelectSeq([i \in 1..Len(segs) |-> Strip(segs[i])],
                           LAMBDA p : p # <<>>)
    IN  IF s = <<>> THEN EMPTY
        ELSE IF parts # <<>> THEN parts[Len(parts)] ELSE s

\* a variant that tests "human"/"person" before "vehicle"
NormalizeSpecies_HumanFirst(rawv) ==
    LET s == Strip(rawv)
        low == LowerStr(s)
    IN  IF s = <<>> \/ LowerStr(s) \in {NAN, NONE} THEN EMPTY
        ELSE IF Contains(low, HUMAN) \/ Contains(low, PERSON) THEN HUMAN
        ELSE IF Contains(low, VEHICLE) THEN VEHICLE
        ELSE _after_last_semicolon(s)

normalize_species(rawv) ==
    LET s == Strip(rawv)
        low == LowerStr(s)
    IN  IF s = <<>> \/ LowerStr(s) \in {NAN, NONE} THEN EMPTY
        ELSE IF Contains(low, VEHICLE) THEN VEHICLE
        ELSE IF Contains(low, HUMAN) \/ Contains(low, PERSON) THEN HUMAN
        ELSE _after_last_semicolon(s)

\* a variant that does not know "blank"
NormalizeEventType_NoBlank(rawv) ==
    LET s == LowerStr(Strip(rawv))
    IN  IF s \in {EMPTY, NONE, NAN} THEN EMPTY
        ELSE IF s = PERSON THEN HUMAN
        ELSE s

normalize_event_type(rawv) ==
    LET s == LowerStr(Strip(rawv))
    IN  IF s \in {EMPTY, BLANK, NONE, NAN} THEN EMPTY
        ELSE IF s = PERSON THEN HUMAN
        ELSE s

\* a variant that infers "animal" from every non-empty species
DeriveType_AnySpeciesAnimal(row) ==
    LET et == LowerStr(_safe_str(row.event_type))
        sp == LowerStr(_safe_str(row.species))
    IN  IF et \in {ANIMAL, HUMAN, VEHICLE} THEN et
        ELSE IF sp # <<>> THEN ANIMAL
        ELSE EMPTY

_derive_type(row) ==
    LET et == LowerStr(_safe_str(row.event_type))
        sp == LowerStr(_safe_str(row.species))
    IN  IF et \in {ANIMAL, HUMAN, VEHICLE} THEN et
        ELSE IF sp = HUMAN THEN HUMAN
        ELSE IF sp = VEHICLE THEN VEHICLE
        ELSE IF sp # <<>> THEN ANIMAL
        ELSE EMPTY

\* a variant in which Wildlife takes every row that is neither human nor
\* vehicle
SectionPure_WildlifeByDefault(section, row) ==
    IF section = "Wildlife" THEN row.event_type \notin {HUMAN, VEHICLE}
    ELSE IF section = "People" THEN row.event_type = HUMAN
    ELSE row.event_type = VEHICLE

\* the row mask of the selected section ("section purity")
SectionPure(section, row) ==
    IF section = "Wildlife" THEN row.event_type = ANIMAL
    ELSE IF section = "People" THEN row.event_type = HUMAN
    ELSE row.event_type = VEHICLE

\* df.get(f, default), row by row
Get(row, f, default) == IF f \in DOMAIN row THEN row[f] ELSE default

\* the column order after df[f] = ...: a new column is put last
Assign(cols, f) ==
    IF \E k \in 1..Len(cols) : cols[k] = f THEN cols ELSE Append(cols, f)

RECURSIVE AssignAll(_, _)
AssignAll(cols, fs) ==
    IF fs = <<>> THEN cols ELSE AssignAll(Assign(cols, Head(fs)), Tail(fs))

\* streamlit_app.py build_datetime: the date and time cells, joined by a
\* space and trimmed, are parsed
AppBuildDatetime(row) ==
    ToDatetime(Strip(Get(row, "date", EMPTY) \o <<" ">> \o Get(row, "time", EMPTY)))

\* DataFrame.dropna(subset=["datetime"])
DropNaDatetime(t) ==
    LET Test(r) == r.datetime # Null
    IN  SelectSeq(t, Test)

\* the row labels of a table: row i of the table as loaded carries label i
\* through every selection
WithIndex(t) ==
    [i \in 1..Len(t) |->
        [f \in DOMAIN t[i] \cup {"index"} |-> IF f = "index" THEN i ELSE t[i][f]]]

\* the values of one column
Column(t, f) == {t[i][f] : i \in 1..Len(t)}

\* date a <= date b
DateLeq(a, b) ==
    \/ a[1] < b[1]
    \/ a[1] = b[1] /\ a[2] < b[2]
    \/ a[1] = b[1] /\ a[2] = b[2] /\ a[3] <= b[3]

\* min_dt.date() and max_dt.date() of the rows with a timestamp
MinDate(valid) ==
    CHOOSE d \in {DateOf(x) : x \in Column(valid, "datetime")} :
        \A e \in {DateOf(x) : x \in Column(valid, "datetime")} : DateLeq(d, e)

MaxDate(valid) ==
    CHOOSE d \in {DateOf(x) : x \in Column(valid, "datetime")} :
        \A e \in {DateOf(x) : x \in Column(valid, "datetime")} : DateLeq(e, d)

camera_options(valid) == Column(valid, "camera")

camera_default(valid) ==
    IF camera_options(valid) \ {UNKNOWN} # {} THEN camera_options(valid) \ {UNKNOWN}
    ELSE camera_options(valid)

\* valid["temp_f"].dropna()
temp_series(valid) == {c[1] : c \in Column(valid, "temp_f") \ {Null}}

\* the ends of the temperature slider
SliderEnds(valid) ==
    LET tmin == CHOOSE a \in temp_series(valid) : \A b \in temp_series(valid) : a <= b
        tmax == CHOOSE a \in temp_series(valid) : \A b \in temp_series(valid) : b <= a
    IN  IF tmin = tmax THEN <<tmin - 1, tmax + 1>> ELSE <<tmin, tmax>>

\* the options of the species multiselect
wild_species(valid) ==
    {valid[i].species : i \in {j \in 1..Len(valid) :
                                  /\ valid[j].event_type = ANIMAL
                                  /\ Strip(valid[j].species) # EMPTY
                                  /\ valid[j].species \notin {HUMAN, VEHICLE}}}

\* The sidebar: what the widgets return for the widget state w of the
\* session. An untouched widget (Null) returns its default.
camera_filter(w, valid) ==
    IF w.camera_filter = Null THEN camera_default(valid) ELSE w.camera_filter[1]

date_range(w, valid) ==
    IF w.date_range = Null THEN <<MinDate(valid), MaxDate(valid)>> ELSE w.date_range

temp_range(w, valid) ==
    IF temp_series(valid) = {} THEN Null
    ELSE IF w.temp_range = Null THEN SliderEnds(valid)
    ELSE w.temp_range

species_filter(w, valid) ==
    IF w.section = "Wildlife" /\ wild_species(valid) # {} THEN w.species_filter
    ELSE {}

\* a widget offers its options only
Offered(w, valid) ==
    /\ camera_filter(w, valid) \subseteq camera_options(valid)
    /\ DateLeq(MinDate(valid), date_range(w, valid)[1])
    /\ DateLeq(date_range(w, valid)[1], date_range(w, valid)[2])
    /\ DateLeq(date_range(w, valid)[2], MaxDate(valid))
    /\ temp_series(valid) # {} =>
          /\ SliderEnds(valid)[1] <= temp_range(w, valid)[1]
          /\ temp_range(w, valid)[1] <= temp_range(w, valid)[2]
          /\ temp_range(w, valid)[2] <= SliderEnds(valid)[2]
    /\ temp_series(valid) = {} => w.temp_range = Null
    /\ w.species_filter \subseteq wild_species(valid)
    /\ w.section # "Wildlife" => w.species_filter = {}

\* "camera filter first"
CameraFilter(b, cams) ==
    LET Test(r) == r.camera \in {LowerStr(c) : c \in cams}
    IN  IF cams # {} THEN SelectSeq(b, Test) ELSE <<>>

\* "section purity"
SectionFilter(b, section) ==
    LET Test(r) == SectionPure(section, r)
    IN  SelectSeq(b, Test)

\* a variant that compares the timestamp with midnight of the two dates
DateFilter_ByTimestamp(b, range) ==
    LET Test(r) == /\ DateLeq(range[1], DateOf(r.datetime))
                   /\ \/ DateLeq(DateOf(r.datetime), range[2]) /\ DateOf(r.datetime) # range[2]
                      \/ DateOf(r.datetime) = range[2] /\ r.datetime[4] = 0 /\ r.datetime[5] = 0
    IN  SelectSeq(b, Test)

\* "date filter"
DateFilter(b, range) ==
    LET Test(r) == /\ DateLeq(range[1], DateOf(r.datetime))
                   /\ DateLeq(DateOf(r.datetime), range[2])
    IN  SelectSeq(b, Test)

\* a variant that keeps the rows without a temperature
TempFilter_KeepNull(b, range) ==
    LET InRange(r) == r.temp_f = Null \/ (r.temp_f[1] >= range[1] /\ r.temp_f[1] <= range[2])
    IN  IF range # Null THEN SelectSeq(b, InRange) ELSE b

\* "temp filter"
TempFilter(b, range) ==
    LET NotNa(r) == r.temp_f # Null
        InRange(r) == r.temp_f[1] >= range[1] /\ r.temp_f[1] <= range[2]
    IN  IF range # Null THEN SelectSeq(SelectSeq(b, NotNa), InRange) ELSE b

\* a variant in which an empty species selection selects no row
SpeciesFilter_EmptySelectsNothing(b, section, species) ==
    LET Test(r) == r.species \in species
    IN  IF section = "Wildlife" THEN SelectSeq(b, Test) ELSE b

\* "species filter"
SpeciesFilter(b, section, species) ==
    LET Test(r) == r.species \in species
    IN  IF section = "Wildlife" /\ species # {} THEN SelectSeq(b, Test) ELSE b

\* a variant without the species filter
FilterChain_NoSpecies(t, c) ==
    TempFilter(
        DateFilter(
            SectionFilter(
                CameraFilter(DropNaDatetime(t), c.camera_filter),
                c.section),
            c.date_range),
        c.temp_range)

\* "Apply filters (section-pure)": the selections, in the order of the script
FilterChain(t, c) ==
    SpeciesFilter(
        TempFilter(
            DateFilter(
                SectionFilter(
                    CameraFilter(DropNaDatetime(t), c.camera_filter),
                    c.section),
                c.date_range),
            c.temp_range),
        c.section, c.species_filter)

\* "Header KPIs": Sightings and Cameras
Sightings(b) == Len(b)

Cameras(b) == Cardinality(Column(b, "camera"))

---------------------------------------------------------------------------
(* data_prep.py *)

\* the ASCII characters from 35 (#) to 91 ([), in code order
AsciiUpper ==
    <<
       "#", "$", "%", "&", "'", "(", ")", "*", "+", ",", "-", ".", "/", "0", "1", "2",
       "3", "4", "5", "6", "7", "8", "9", ":", ";", "<", "=", ">", "?", "@", "A", "B",
       "C", "D", "E", "F", "G", "H", "I", "J", "K", "L", "M", "N", "O", "P", "Q", "R",
       "S", "T", "U", "V", "W", "X", "Y", "Z", "[" >>

\* the ASCII characters from 97 (a) to 126 (~), in code order
AsciiLower ==
    <<
       "a", "b", "c", "d", "e", "f", "g", "h", "i", "j", "k", "l", "m", "n", "o", "p",
       "q", "r", "s", "t", "u", "v", "w", "x", "y", "z", "{", "|", "}", "~" >>

\* the UTF-8 byte of an ASCII character
CharCode(c) ==
    CASE c = "\t" -> 9
      [] c = "\n" -> 10
      [] c = " " -> 32
      [] c = "!" -> 33
      [] c = "]" -> 93
      [] c = "^" -> 94
      [] c = "_" -> 95
      [] \E i \in 1..Len(AsciiUpper) : AsciiUpper[i] = c ->
            34 + (CHOOSE i \in 1..Len(AsciiUpper) : AsciiUpper[i] = c)
      [] OTHER ->
            96 + (CHOOSE i \in 1..Len(AsciiLower) : AsciiLower[i] = c)

HexDigits ==
    <<"0", "1", "2", "3", "4", "5", "6", "7", "8", "9", "a", "b", "c", "d", "e", "f">>

\* s.encode("utf-8"), for ASCII text
Utf8(s) == [i \in 1..Len(s) |-> CharCode(s[i])]

RECURSIVE Mix(_, _, _)
Mix(bytes, i, acc) ==
    IF i > Len(bytes) THEN acc
    ELSE Mix(bytes, i + 1, (acc * 131 + bytes[i]) % 1000003)

\* hashlib.md5(b).hexdigest() is library code: it is replaced here by a
\* deterministic digest of the same shape (32 hexadecimal characters computed
\* from the bytes), not by MD5 itself.
Md5HexDigest(bytes) ==
    LET h == Mix(bytes, 1, 7)
    IN  [k \in 1..32 |-> HexDigits[(((h * (2 * k + 31) + k * k) \div 7) % 16) + 1]]

\* a variant that hashes the temperature as well
EventIdBase_WithTemp(row) ==
    row.camera \o <<"|">> \o row.filename \o <<"|">> \o row.date \o <<"|">> \o row.time
        \o <<"|">> \o (IF row.temp_f = Null THEN <<"n","a","n">> ELSE <<"n","u","m">>)

\* the string make_event_id hashes
EventIdBase(row) ==
    row.camera \o <<"|">> \o row.filename \o <<"|">> \o row.date \o <<"|">> \o row.time

make_event_id(row) == SubSeq(Md5HexDigest(Utf8(EventIdBase(row))), 1, 10)

\* the event_type step of prep_df
PrepEventType(rawv) ==
    LET s == LowerStr(Strip(rawv))
    IN  IF s = PERSON THEN HUMAN
        ELSE IF s = PEOPLE THEN HUMAN
        ELSE s

\* a variant that prefers species_clean to species_group
WildlifeLabel_CleanFirst(species_group, species_clean) ==
    LET l0 == species_clean
        l1 == IF l0 = EMPTY THEN species_group ELSE l0
        l2 == IF l1 = EMPTY THEN OTHER_LABEL ELSE l1
    IN  l2

\* "Wildlife label preference: group -> clean -> Other", on stripped cells
WildlifeLabel(species_group, species_clean) ==
    LET l0 == species_group
        l1 == IF l0 = EMPTY THEN species_clean ELSE l0
        l2 == IF l1 = EMPTY THEN OTHER_LABEL ELSE l1
    IN  l2

\* data_prep.py build_datetime: the trimmed date and time cells, joined by
\* a space and trimmed, are parsed
build_datetime(row) ==
    ToDatetime(Strip(Strip(row.date) \o <<" ">> \o Strip(row.time)))

UNKNOWN_TIME == <<"U","n","k","n","o","w","n"," ","t","i","m","e">>

\* the separator of the summary, " " bullet " ": the bullet is one character
\* outside ASCII, written here as a token
BULLET == <<" ", "(bullet)", " ">>

\* x or y, for str operands
OrElse(x, y) == IF x # EMPTY THEN x ELSE y

\* a variant that keeps the event type in lower case
MakeFriendlyName_NoCapitalize(row) ==
    LET when == IF row.datetime # Null THEN Strftime(row.datetime) ELSE UNKNOWN_TIME
        cam == Strip(OrElse(row.camera, UNKNOWN))
        et == LowerStr(Strip(row.event_type))
        l0 == Strip(OrElse(row.wildlife_label, OrElse(row.species_clean, OTHER_LABEL)))
        label == IF et \in {HUMAN, VEHICLE} THEN et
                 ELSE IF l0 = EMPTY THEN OTHER_LABEL ELSE l0
        fn == Strip(row.filename)
        suffix == IF Len(fn) >= 8 THEN SubSeq(fn, Len(fn) - 7, Len(fn)) ELSE fn
    IN  when \o BULLET \o cam \o BULLET \o label \o BULLET \o suffix

make_friendly_name(row) ==
    LET when == IF row.datetime # Null THEN Strftime(row.datetime) ELSE UNKNOWN_TIME
        cam == Strip(OrElse(row.camera, UNKNOWN))
        et == LowerStr(Strip(row.event_type))
        l0 == Strip(OrElse(row.wildlife_label, OrElse(row.species_clean, OTHER_LABEL)))
        label == IF et \in {HUMAN, VEHICLE} THEN Capitalize(et)
                 ELSE IF l0 = EMPTY THEN OTHER_LABEL ELSE l0
        fn == Strip(row.filename)
        suffix == IF Len(fn) >= 8 THEN SubSeq(fn, Len(fn) - 7, Len(fn)) ELSE fn
    IN  when \o BULLET \o cam \o BULLET \o label \o BULLET \o suffix

\* r with column f set to v (a new column is added)
WithColumn(r, f, v) == [g \in DOMAIN r \cup {f} |-> IF g = f THEN v ELSE r[g]]

\* str.title(): a letter is upper case after a character that is no letter
\* (and at the start), lower case after a letter
Title(s) ==
    [i \in 1..Len(s) |->
        IF i = 1 \/ Lower(s[i - 1]) = Upper(s[i - 1]) THEN Upper(s[i]) ELSE Lower(s[i])]

\* the spellings of the two moon maps and the phase each one names
MoonSpellings ==
    << <<<<"n","e","w"," ","m","o","o","n">>, 1>>, <<<<"n","e","w">>, 1>>, <<<<"w","a","x","i","n","g"," ","c","r","e","s","c","e","n","t">>, 2>>,
       <<<<"f","i","r","s","t"," ","q","u","a","r","t","e","r">>, 3>>, <<<<"w","a","x","i","n","g"," ","g","i","b","b","o","u","s">>, 4>>, <<<<"f","u","l","l"," ","m","o","o","n">>, 5>>,
       <<<<"f","u","l","l">>, 5>>, <<<<"w","a","n","i","n","g"," ","g","i","b","b","o","u","s">>, 6>>, <<<<"l","a","s","t"," ","q","u","a","r","t","e","r">>, 7>>,
       <<<<"t","h","i","r","d"," ","q","u","a","r","t","e","r">>, 7>>, <<<<"w","a","n","i","n","g"," ","c","r","e","s","c","e","n","t">>, 8>> >>

\* the standard names of phase_map
MoonNames ==
    << <<"N","e","w"," ","M","o","o","n">>, <<"W","a","x","i","n","g"," ","C","r","e","s","c","e","n","t">>, <<"F","i","r","s","t"," ","Q","u","a","r","t","e","r">>, <<"W","a","x","i","n","g"," ","G","i","b","b","o","u","s">>,
       <<"F","u","l","l"," ","M","o","o","n">>, <<"W","a","n","i","n","g"," ","G","i","b","b","o","u","s">>, <<"L","a","s","t"," ","Q","u","a","r","t","e","r">>, <<"W","a","n","i","n","g"," ","C","r","e","s","c","e","n","t">> >>

\* the glyphs of moon_map, each one character outside ASCII, written here as
\* a token; the ninth is the glyph of moon_map.get for any other spelling
MoonGlyphs ==
    << <<"(new moon)">>, <<"(waxing crescent moon)">>, <<"(first quarter moon)">>,
       <<"(waxing gibbous moon)">>, <<"(full moon)">>, <<"(waning gibbous moon)">>,
       <<"(last quarter moon)">>, <<"(waning crescent moon)">>, <<"(crescent moon)">> >>

\* the phase a spelling names, 0 for a spelling that is not in the maps
MoonPhaseOf(key) ==
    IF \E k \in 1..Len(MoonSpellings) : MoonSpellings[k][1] = key
    THEN MoonSpellings[CHOOSE k \in 1..Len(MoonSpellings) : MoonSpellings[k][1] = key][2]
    ELSE 0

get_moon_emoji(phase) ==
    LET p == MoonPhaseOf(LowerStr(Strip(phase)))
    IN  IF p = 0 THEN MoonGlyphs[9] ELSE MoonGlyphs[p]

standardize_moon_phase(phase) ==
    LET p == MoonPhaseOf(LowerStr(Strip(phase)))
    IN  IF p = 0 THEN Title(Strip(phase)) ELSE MoonNames[p]

\* the columns prep_df adds, as empty strings, when the table lacks them
PrepColumnList ==
    <<"camera", "filename", "event_type", "species_clean", "species_group", "date",
      "time", "temp_f", "moon_phase", "moon_illumination", "moon_age_days">>

PrepColumns == {PrepColumnList[k] : k \in 1..Len(PrepColumnList)}

\* the column order of the table prep_df returns
prep_df_columns(cols) ==
    AssignAll(cols, PrepColumnList \o
                    <<"camera", "filename", "event_type", "temp_f", "datetime",
                      "species_clean", "species_group", "wildlife_label", "moon_phase",
                      "moon_phase_clean", "moon_emoji", "moon_illumination",
                      "moon_age_days", "event_id", "friendly_name">>)

prep_row(r) ==
    LET r0 == [f \in DOMAIN r \cup PrepColumns |-> IF f \in DOMAIN r THEN r[f] ELSE EMPTY]
        r1 == [r0 EXCEPT !.camera = Strip(@),
                         !.filename = Strip(@),
                         !.event_type = PrepEventType(@),
                         !.temp_f = ToNumeric(@)]
        r2 == WithColumn(r1, "datetime", build_datetime(r1))
        r3 == [r2 EXCEPT !.species_clean = Strip(@),
                         !.species_group = Strip(@),
                         !.moon_phase = Strip(@),
                         !.moon_illumination = ToNumeric(@),
                         !.moon_age_days = ToNumeric(@)]
        r4 == WithColumn(r3, "wildlife_label",
                         WildlifeLabel(r3.species_group, r3.species_clean))
        r5 == WithColumn(WithColumn(r4, "moon_phase_clean",
                                    standardize_moon_phase(r4.moon_phase)),
                         "moon_emoji", get_moon_emoji(r4.moon_phase))
        r6 == WithColumn(r5, "event_id", make_event_id(r5))
    IN  WithColumn(r6, "friendly_name", make_friendly_name(r6))

\* a variant that drops the rows without a timestamp
PrepDf_DropUnparsed(t) ==
    LET Test(r) == r.datetime # Null
    IN  SelectSeq([i \in 1..Len(t) |-> prep_row(t[i])], Test)

prep_df(t) == [i \in 1..Len(t) |-> prep_row(t[i])]

---------------------------------------------------------------------------
(* Google Drive: the folders and files the service lists.                *)
(* A Drive is [root, camera_root, images_folder, folders, files]:         *)
(* folders[f] are the pages the service returns for the subfolders of     *)
(* folder f, files[f] the pages for its files; a page is a sequence of    *)
(* entries, a folder entry is [id, name], a file entry is                 *)
(* [id, name, webViewLink, mimeType]. Ids, names and links are strings;   *)
(* a missing one is the empty string.                                     *)

\* service.files().list(q = "'folder' in parents ...", pageToken = token)
\* .execute(): token 0 is None, token k asks for the page after page k, and
\* nextPageToken 0 says that no page follows
ListPage(listing, folder, token) ==
    LET pages == IF folder \in DOMAIN listing THEN listing[folder] ELSE << <<>> >>
    IN  [files |-> pages[token + 1],
         nextPageToken |-> IF token + 1 < Len(pages) THEN token + 1 ELSE 0]

\* str.strip("/")
RECURSIVE StripSlash(_)
StripSlash(s) ==
    IF s # <<>> /\ Head(s) = "/" THEN StripSlash(Tail(s))
    ELSE IF s # <<>> /\ s[Len(s)] = "/" THEN StripSlash(SubSeq(s, 1, Len(s) - 1))
    ELSE s

\* f"{parent_rel}/{name}".strip("/")
RelPath(parent_rel, name) == StripSlash(parent_rel \o <<"/">> \o name)

\* folders.get(folder_id, ""), for the dict kept as the sequence of its
\* items <<folder_id, relpath>> in the order of insertion
FolderRel(folders, folder_id) ==
    IF \E k \in 1..Len(folders) : folders[k][1] = folder_id
    THEN folders[CHOOSE k \in 1..Len(folders) : folders[k][1] = folder_id][2]
    ELSE EMPTY

\* _list_drive_files_recursive before its first request
WalkStart(root) ==
    [phase |-> "folders", folders |-> << <<root, EMPTY>> >>, queue |-> <<root>>,
     parent |-> EMPTY, token |-> 0, idx |-> 0, out |-> <<>>, calls |-> <<>>,
     file_calls |-> <<>>]

\* a variant of the loop without the test "fid not in folders"
RECURSIVE AddFolders_NoSeenTest(_, _, _)
AddFolders_NoSeenTest(w, parent_rel, fs) ==
    IF fs = <<>> THEN w
    ELSE LET f == Head(fs)
         IN  AddFolders_NoSeenTest(
                 IF f.id = EMPTY \/ f.name = EMPTY THEN w
                 ELSE [w EXCEPT !.folders = Append(@, <<f.id, RelPath(parent_rel, f.name)>>),
                                !.queue = Append(@, f.id)],
                 parent_rel, Tail(fs))

\* the for loop over one page of subfolders
RECURSIVE AddFolders(_, _, _)
AddFolders(w, parent_rel, fs) ==
    IF fs = <<>> THEN w
    ELSE LET f == Head(fs)
             known == \E k \in 1..Len(w.folders) : w.folders[k][1] = f.id
         IN  AddFolders(IF f.id = EMPTY \/ f.name = EMPTY \/ known THEN w
                        ELSE [w EXCEPT !.folders = Append(@, <<f.id, RelPath(parent_rel, f.name)>>),
                                       !.queue = Append(@, f.id)],
                        parent_rel, Tail(fs))

\* one request of "1) Collect all folders under root" and what the loops do
\* up to the next request: the folder is popped from the queue before its
\* first page is asked for
list_folders_page(service, w) ==
    LET parent == IF w.parent = EMPTY THEN Head(w.queue) ELSE w.parent
        w0 == [w EXCEPT !.queue = IF w.parent = EMPTY THEN Tail(@) ELSE @,
                        !.parent = parent,
                        !.calls = Append(@, <<parent, w.token>>)]
        resp == ListPage(service.folders, parent, w.token)
        w1 == AddFolders(w0, FolderRel(w0.folders, parent), resp.files)
    IN  IF resp.nextPageToken # 0 THEN [w1 EXCEPT !.token = resp.nextPageToken]
        ELSE IF w1.queue # <<>> THEN [w1 EXCEPT !.token = 0, !.parent = EMPTY]
        ELSE [w1 EXCEPT !.token = 0, !.parent = EMPTY, !.phase = "files", !.idx = 1]

\* the for loop over one page of files: out[relpath] = {...}
RECURSIVE AddFiles(_, _, _)
AddFiles(index, folder_rel, fs) ==
    IF fs = <<>> THEN index
    ELSE LET f == Head(fs)
         IN  AddFiles(IF f.id = EMPTY \/ f.name = EMPTY THEN index
                      ELSE WithColumn(index, RelPath(folder_rel, f.name),
                                      [id |-> f.id, name |-> f.name,
                                       webViewLink |-> f.webViewLink]),
                      folder_rel, Tail(fs))

\* one request of "2) List files in each folder, build relpath map"
list_files_page(service, w) ==
    LET folder == w.folders[w.idx]
        resp == ListPage(service.files, folder[1], w.token)
        more == resp.nextPageToken # 0
    IN  [w EXCEPT !.out = AddFiles(@, folder[2], resp.files),
                  !.file_calls = Append(@, <<folder[1], w.token>>),
                  !.token = resp.nextPageToken,
                  !.idx = IF more THEN @ ELSE @ + 1,
                  !.phase = IF ~more /\ w.idx = Len(w.folders) THEN "done" ELSE @]

\* drive_view_url: the text before the id and the text after it are one
\* character each here
drive_view_url(file_id) ==
    <<"https://drive.google.com/file/d/">> \o file_id \o <<"/view">>

\* the entries of all the pages of a listing, in the order of the requests
RECURSIVE AllPages(_)
AllPages(pages) == IF pages = <<>> THEN <<>> ELSE Head(pages) \o AllPages(Tail(pages))

\* streamlit_app.py list_images_in_folder: { filename: {id, webViewLink} }
RECURSIVE FlatMap(_, _)
FlatMap(index, fs) ==
    IF fs = <<>> THEN index
    ELSE FlatMap(IF Head(fs).name = EMPTY THEN index
                 ELSE WithColumn(index, Head(fs).name,
                                 [id |-> Head(fs).id, webViewLink |-> Head(fs).webViewLink]),
                 Tail(fs))

list_images_in_folder(service, folder_id) ==
    IF folder_id = EMPTY THEN <<>>
    ELSE FlatMap(<<>>, AllPages(IF folder_id \in DOMAIN service.files
                                THEN service.files[folder_id] ELSE << <<>> >>))

\* streamlit_app.py resolve_image_link(row, drive_index, flat_image_map):
\* <<url, file_id>>
AppResolveImageLink(row, drive_index, flat_image_map) ==
    LET cam == _safe_str(Get(row, "camera", EMPTY))
        fn == _safe_str(Get(row, "filename", EMPTY))
        key == <<"i","m","a","g","e","s","/">> \o cam \o <<"/">> \o fn
        Link(hit) == IF hit.webViewLink # EMPTY THEN hit.webViewLink
                     ELSE IF hit.id # EMPTY THEN drive_view_url(hit.id) ELSE EMPTY
    IN  IF _safe_str(Get(row, "image_url", EMPTY)) # EMPTY
        THEN <<_safe_str(row.image_url), EMPTY>>
        ELSE IF _safe_str(Get(row, "image_drive_id", EMPTY)) # EMPTY
        THEN <<drive_view_url(_safe_str(row.image_drive_id)), _safe_str(row.image_drive_id)>>
        ELSE IF cam # EMPTY /\ fn # EMPTY /\ key \in DOMAIN drive_index
        THEN <<Link(drive_index[key]), drive_index[key].id>>
        ELSE IF fn # EMPTY /\ fn \in DOMAIN flat_image_map
        THEN <<Link(flat_image_map[fn]), flat_image_map[fn].id>>
        ELSE <<EMPTY, EMPTY>>

\* str.endswith
EndsWith(s, suffix) ==
    Len(s) >= Len(suffix) /\ SubSeq(s, Len(s) - Len(suffix) + 1, Len(s)) = suffix

\* drive_io.py list_camera_folders: { name: id } of the first page of the
\* subfolders of the root
RECURSIVE CameraFolders(_, _)
CameraFolders(index, fs) ==
    IF fs = <<>> THEN index
    ELSE CameraFolders(IF Strip(Head(fs).name) = EMPTY \/ Strip(Head(fs).id) = EMPTY THEN index
                       ELSE WithColumn(index, Strip(Head(fs).name), Strip(Head(fs).id)),
                       Tail(fs))

list_camera_folders(service, root_folder_id) ==
    CameraFolders(<<>>, ListPage(service.folders, root_folder_id, 0).files)

\* drive_io.py index_images_by_camera, the files of one camera folder:
\* { filename: {id, webViewLink} } of the images
RECURSIVE CameraImages(_, _)
CameraImages(index, fs) ==
    IF fs = <<>> THEN index
    ELSE LET f == Head(fs)
             name == Strip(f.name)
             low == LowerStr(name)
             image == \/ SubSeq(f.mimeType, 1, 6) = <<"i","m","a","g","e","/">>
                      \/ EndsWith(low, <<".","j","p","g">>) \/ EndsWith(low, <<".","j","p","e","g">>)
                      \/ EndsWith(low, <<".","p","n","g">>) \/ EndsWith(low, <<".","w","e","b","p">>)
         IN  CameraImages(IF name = EMPTY \/ Strip(f.id) = EMPTY \/ ~image THEN index
                          ELSE WithColumn(index, name,
                                          [id |-> Strip(f.id),
                                           webViewLink |-> IF Strip(f.webViewLink) # EMPTY
                                                           THEN Strip(f.webViewLink)
                                                           ELSE drive_view_url(Strip(f.id))]),
                          Tail(fs))

\* image_index[camera][filename] = {"id", "webViewLink"}
index_images_by_camera(service, root_folder_id) ==
    LET cam_folders == list_camera_folders(service, root_folder_id)
    IN  [cam \in DOMAIN cam_folders |->
            CameraImages(<<>>, AllPages(IF cam_folders[cam] \in DOMAIN service.files
                                        THEN service.files[cam_folders[cam]]
                                        ELSE << <<>> >>))]

\* drive_io.py resolve_image_link(camera, filename, image_index): <<url, id>>
resolve_image_link(camera, filename, image_index) ==
    LET cam == Strip(camera)
        fn == Strip(filename)
    IN  IF cam = EMPTY \/ fn = EMPTY THEN <<EMPTY, EMPTY>>
        ELSE IF cam \notin DOMAIN image_index THEN <<EMPTY, EMPTY>>
        ELSE IF fn \notin DOMAIN image_index[cam] THEN <<EMPTY, EMPTY>>
        ELSE <<image_index[cam][fn].webViewLink, image_index[cam][fn].id>>

---------------------------------------------------------------------------
(* ui_components.py *)

\* sorted(): the strings of a set in ascending order of their characters
RECURSIVE Sorted(_)
Sorted(S) ==
    IF S = {} THEN <<>>
    ELSE LET Less(a, b) ==
                 \/ \E k \in 1..Len(a) :
                       /\ k <= Len(b)
                       /\ CharCode(a[k]) < CharCode(b[k])
                       /\ \A j \in 1..(k - 1) : a[j] = b[j]
                 \/ Len(a) < Len(b) /\ \A j \in 1..Len(a) : a[j] = b[j]
             least == CHOOSE a \in S : \A b \in S \ {a} : Less(a, b)
         IN  <<least>> \o Sorted(S \ {least})

\* the domain of stable_color_domain (the colours, one per entry, are left out)
stable_color_domain(values, pin_other_gray) ==
    LET cleaned == {Strip(v) : v \in values} \ {EMPTY}
    IN  IF pin_other_gray /\ OTHER_LABEL \in cleaned
        THEN Sorted(cleaned \ {OTHER_LABEL}) \o <<OTHER_LABEL>>
        ELSE Sorted(cleaned)

\* Series.dt.day_name(), null for a null timestamp
DayName(dt) ==
    LET y == IF dt[2] < 3 THEN dt[1] - 1 ELSE dt[1]
        shift == <<0, 3, 2, 5, 0, 3, 5, 1, 4, 6, 2, 4>>[dt[2]]
        names == << <<"S","u","n","d","a","y">>, <<"M","o","n","d","a","y">>, <<"T","u","e","s","d","a","y">>, <<"W","e","d","n","e","s","d","a","y">>, <<"T","h","u","r","s","d","a","y">>,
                    <<"F","r","i","d","a","y">>, <<"S","a","t","u","r","d","a","y">> >>
    IN  names[((y + (y \div 4) - (y \div 100) + (y \div 400) + shift + dt[3]) % 7) + 1]

\* a variant that rounds the hour up to the end of its block
TimeBin_RoundUp(dt, time_gran) ==
    IF time_gran = "Hour" THEN <<dt[4]>>
    ELSE IF time_gran = "2-hour" THEN <<((dt[4] + 1) \div 2) * 2>>
    ELSE <<((dt[4] + 3) \div 4) * 4>>

\* the time_bin of a timestamp, null for a null timestamp
TimeBin(dt, time_gran) ==
    IF time_gran = "Hour" THEN <<dt[4]>>
    ELSE IF time_gran = "2-hour" THEN <<(dt[4] \div 2) * 2>>
    ELSE <<(dt[4] \div 4) * 4>>

\* base.groupby([key, group_col]).size(): the pairs of a key that is not
\* null and a group, with the number of rows of each
GroupSizes(t, key, group_col) ==
    LET rows == {i \in 1..Len(t) : t[i][key] # Null}
    IN  { <<t[i][key], t[i][group_col],
            Cardinality({j \in rows : t[j][key] = t[i][key]
                                      /\ t[j][group_col] = t[i][group_col]})>> : i \in rows }

\* render_patterns: base with its two new columns and the data of the two
\* charts and of their colour scale
render_patterns(frame, section, include_other, time_gran) ==
    LET group_col == IF section = "Wildlife" THEN "wildlife_label" ELSE "event_type"
        b2 == [i \in 1..Len(frame) |->
                  WithColumn(
                      WithColumn(frame[i], "time_bin",
                                 IF frame[i].datetime = Null THEN Null
                                 ELSE TimeBin(frame[i].datetime, time_gran)),
                      "day_of_week",
                      IF frame[i].datetime = Null THEN Null ELSE DayName(frame[i].datetime))]
    IN  IF frame = <<>> THEN [base |-> frame, by_time |-> {}, by_day |-> {}, domain |-> <<>>]
        ELSE [base |-> b2,
              by_time |-> GroupSizes(b2, "time_bin", group_col),
              by_day |-> GroupSizes(b2, "day_of_week", group_col),
              domain |-> stable_color_domain(Column(b2, group_col), ~include_other)]

\* base.dropna(subset=["datetime"]).sort_values("datetime", ascending=False):
\* the latest row first, rows of one timestamp in the order of the table
SortDescending(t) ==
    LET Later(a, b) == \E k \in 1..5 : a[k] > b[k] /\ \A j \in 1..(k - 1) : a[j] = b[j]
        Rank(i) == 1 + Cardinality({j \in 1..Len(t) :
                                       \/ Later(t[j].datetime, t[i].datetime)
                                       \/ t[j].datetime = t[i].datetime /\ j < i})
    IN  [k \in 1..Len(t) |-> t[CHOOSE i \in 1..Len(t) : Rank(i) = k]]

\* the first value of st.session_state.gallery_limit
GalleryLimit == 8

\* the rows of the gallery: the rows with a timestamp, the latest first,
\* without the rows labelled "Other" when they are not wanted
gallery_view(frame, section, include_other) ==
    LET NotOther(r) == r.wildlife_label # OTHER_LABEL
        sorted == SortDescending(DropNaDatetime(frame))
    IN  IF section = "Wildlife" /\ ~include_other THEN SelectSeq(sorted, NotOther)
        ELSE sorted

\* a variant in which the cards end before the first one whose thumbnail
\* could not be loaded
RenderListing_StopAtFailure(frame, section, include_other, image_index, limit_state, thumbs) ==
    LET view == gallery_view(frame, section, include_other)
        limit == IF limit_state = 0 THEN GalleryLimit ELSE limit_state
        shown == SubSeq(view, 1, IF Len(view) < limit THEN Len(view) ELSE limit)
        Fid(r) == resolve_image_link(r.camera, r.filename, image_index)[2]
        Broken(k) == Fid(shown[k]) # EMPTY /\ ~thumbs[Fid(shown[k])]
        n == IF \E k \in 1..Len(shown) : Broken(k)
             THEN (CHOOSE k \in 1..Len(shown) : Broken(k) /\ \A j \in 1..(k - 1) : ~Broken(j)) - 1
             ELSE Len(shown)
    IN  [view |-> view, gallery_limit |-> limit,
         cards |-> [k \in 1..n |->
                       [label |-> IF section = "Wildlife" THEN shown[k].wildlife_label
                                  ELSE Capitalize(shown[k].event_type),
                        url |-> resolve_image_link(shown[k].camera, shown[k].filename,
                                                   image_index)[1],
                        fid |-> Fid(shown[k]),
                        thumbnail |-> IF Fid(shown[k]) # EMPTY THEN "image" ELSE "placeholder"]],
         load_more |-> Len(view) > limit,
         remaining |-> Len(view) - limit]

\* a variant that holds back the last row of a full page
DisplayView_OneShort(view, limit_state) ==
    SubSeq(view, 1, IF Len(view) < limit_state THEN Len(view) ELSE limit_state - 1)

\* view.head(gallery_limit)
display_view(view, limit_state) ==
    SubSeq(view, 1, IF Len(view) < limit_state THEN Len(view) ELSE limit_state)

\* render_listing_and_viewer, one run of it. limit_state is the value of
\* st.session_state.gallery_limit, 0 when the key is not set; thumbs[fid]
\* is TRUE when load_thumbnail_cached returns the bytes of file fid and
\* FALSE when it returns None. The result: the rows of the gallery, the
\* gallery limit after the run, the cards shown (label, link, file id, and
\* thumbnail or placeholder) and the Load More button.
render_listing_and_viewer(frame, section, include_other, image_index, limit_state, thumbs) ==
    LET view == gallery_view(frame, section, include_other)
        limit == IF limit_state = 0 THEN GalleryLimit ELSE limit_state
        shown == display_view(view, limit)
        Card(r) ==
            LET link == resolve_image_link(r.camera, r.filename, image_index)
            IN  [label |-> IF section = "Wildlife" THEN r.wildlife_label
                           ELSE Capitalize(r.event_type),
                 url |-> link[1],
                 fid |-> link[2],
                 thumbnail |-> IF link[2] # EMPTY /\ thumbs[link[2]] THEN "image"
                               ELSE "placeholder"]
    IN  IF view = <<>>
        THEN [view |-> view, gallery_limit |-> limit_state, cards |-> <<>>,
              load_more |-> FALSE, remaining |-> 0]
        ELSE [view |-> view, gallery_limit |-> limit,
              cards |-> [k \in 1..Len(shown) |-> Card(shown[k])],
              load_more |-> Len(view) > limit,
              remaining |-> Len(view) - limit]

\* streamlit_app.py, the charts of the dashboard

\* the species of the frame that are not blank, with their number of rows
SpeciesCounts(frame) ==
    LET labels == {frame[i].species : i \in 1..Len(frame)} \ {EMPTY}
    IN  [s \in labels |-> Cardinality({i \in 1..Len(frame) : frame[i].species = s})]

\* counts.head(n).index.tolist(): the outcomes of the descending sort by
\* count, which leaves the order of species of equal count open
TopSpecies(frame, n) ==
    LET counts == SpeciesCounts(frame)
        size == IF Cardinality(DOMAIN counts) < n THEN Cardinality(DOMAIN counts) ELSE n
    IN  {top \in SUBSET DOMAIN counts :
            /\ Cardinality(top) = size
            /\ \A a \in top, b \in DOMAIN counts \ top : counts[a] >= counts[b]}

\* frame["species"].where(frame["species"].isin(top_species), other="Other")
WithSpeciesGroup(frame, section, top_species) ==
    [i \in 1..Len(frame) |->
        IF section = "Wildlife"
        THEN WithColumn(frame[i], "species_group",
                        IF frame[i].species \in top_species THEN frame[i].species
                        ELSE OTHER_LABEL)
        ELSE frame[i]]

\* chart_df of "Activity Over Time": the ten most frequent species
TimelineTop == 10
ChartDf(frame) ==
    LET Test(r) == r.datetime # Null /\ r.temp_f # Null
    IN  SelectSeq(frame, Test)

\* patt of "Patterns": the eight most frequent species
PatternsTop == 8
Patt(frame) ==
    LET b == DropNaDatetime(frame)
    IN  [i \in 1..Len(b) |->
            WithColumn(WithColumn(b[i], "hour", <<b[i].datetime[4]>>),
                       "weekday", DayName(b[i].datetime))]

---------------------------------------------------------------------------
(* The contents of events.csv the model draws *)

PadChars == {" ", "\t"}

Pads == UNION {[1..k -> PadChars] : k \in 0..MaxPad}

Padded(W) == {l \o w \o r : l \in Pads, w \in W, r \in Pads}

RECURSIVE Chains(_, _)
Chains(W, n) ==
    IF n <= 1 THEN W
    ELSE Chains(W, n - 1) \cup {c \o <<";">> \o w : c \in Chains(W, n - 1), w \in W}

EtWords ==
    { EMPTY, <<"a","n","i","m","a","l">>, <<"A","n","i","m","a","l">>,
      <<"v","e","h","i","c","l","e">>, <<"V","E","H","I","C","L","E">>,
      <<"h","u","m","a","n">>,
      <<"p","e","r","s","o","n">>, <<"P","e","r","s","o","n">>, <<"p","e","o","p","l","e">>,
          <<"P","E","O","P","L","E">>, <<"b","l","a","n","k">>, <<"B","l","a","n","k">>,
      <<"n","o","n","e">>, <<"N","o","n","e">>, <<"n","a","n">>, <<"N","a","N">>,
          <<"d","e","e","r">> }

SpWords ==
    { EMPTY, <<" ","H","o","g"," ">>, <<"V","e","h","i","c","l","e">>, <<"h","u","m","a","n">>,
      <<"P","E","R","S","O","N">>,
      <<"N","a","N">>, <<"n","o","n","e">>, <<"a","n","i","m","a","l">>,
          <<"U","n","k","n","o","w","n">> }

\* the cells of scenario 1: camera, file name, date, time and temperature
GATE == <<"g","a","t","e">>
IMG_0001 == <<"I","M","G","_","0","0","0","1",".","J","P","G">>
JAN_18 == <<"0","1","/","1","8","/","2","0","2","6">>
PM_0357 == <<"0","3",":","5","7"," ","P","M">>
TEMP_47 == <<"4","7">>

Rows(CAM, FN, DT, TM, TF, ET, SP, SC, SG) ==
    [camera : CAM, filename : FN, date : DT, time : TM, temp_f : TF,
     event_type : ET, species : SP, species_clean : SC, species_group : SG]

Tables(R, n) == UNION {[1..k -> R] : k \in 1..n}

\* rows with every combination of a few event types and species cells
MixedRows ==
    Rows({<<" ","G","a","t","e"," ">>}, {IMG_0001}, {JAN_18}, {PM_0357}, {TEMP_47},
         {EMPTY, <<"a","n","i","m","a","l">>, <<"H","u","m","a","n">>,
          <<"v","e","h","i","c","l","e">>, <<"p","e","o","p","l","e">>,
          <<"b","l","a","n","k">>},
         {EMPTY, <<"H","u","m","a","n">>, <<"d","e","e","r">>,
          <<"V","e","h","i","c","l","e",";","d","e","e","r">>,
          <<"m","a","m","m","a","l","i","a",";","W","h","i","t","e","t","a","i","l"," ","D","e","e","r">>},
         {EMPTY, <<"W","h","i","t","e","t","a","i","l"," ","D","e","e","r"," ">>,
          <<"v","e","h","i","c","l","e">>, <<"a","n","i","m","a","l">>},
         {EMPTY, <<" ","d","e","e","r">>, <<"h","u","m","a","n">>, <<" ">>})

\* rows that differ in the raw event type only
EventTypeRows ==
    Rows({GATE}, {IMG_0001}, {JAN_18}, {PM_0357}, {TEMP_47},
         Padded(EtWords), {EMPTY}, {EMPTY}, {EMPTY})

\* rows that differ in the raw species only
SpeciesRows ==
    Rows({GATE}, {IMG_0001}, {JAN_18}, {PM_0357}, {TEMP_47},
         {ANIMAL}, Chains(SpWords, MaxSegs), {EMPTY}, {EMPTY})

\* rows that differ in the fields of the event id and in the temperature
IdRows ==
    Rows({<<"a">>, <<"a","|","b">>, <<" ","a">>}, {<<"c">>,
         <<"b","|","c">>}, {JAN_18}, {PM_0357},
         {TEMP_47, <<"n","/","a">>}, {ANIMAL}, {EMPTY}, {EMPTY}, {<<"d","e","e","r">>})

\* rows that differ in the fields of the friendly name: camera and file
\* name, date and time (one date that is no calendar date, one that is not
\* in 2026), event type and labels
FriendlyRows ==
    Rows({GATE}, {IMG_0001}, {JAN_18}, {PM_0357}, {TEMP_47},
         {<<"P","e","r","s","o","n">>}, {EMPTY}, {EMPTY}, {EMPTY})
    \cup
    Rows({<<" ">>}, {<<"a",".","j","p","g">>}, {JAN_18}, {PM_0357}, {TEMP_47},
         {<<"P","e","r","s","o","n">>}, {EMPTY}, {EMPTY}, {EMPTY})
    \cup
    Rows({GATE}, {IMG_0001}, {JAN_18}, {<<"1","2",":","0","5"," ","A","M">>}, {TEMP_47},
         {<<"v","e","h","i","c","l","e">>}, {EMPTY}, {EMPTY}, {EMPTY})
    \cup
    Rows({GATE}, {IMG_0001}, {<<"1","3","/","4","5","/","2","0","2","6">>, <<"0","2","/","2","9","/","2","0","2","6">>}, {PM_0357}, {TEMP_47},
         {<<"v","e","h","i","c","l","e">>}, {EMPTY}, {EMPTY}, {EMPTY})
    \cup
    Rows({GATE}, {<<"0","0","0","1",".","J","P","G">>}, {JAN_18}, {PM_0357}, {TEMP_47},
         {<<"a","n","i","m","a","l">>}, {EMPTY}, {EMPTY, <<"W","h","i","t","e","t","a","i","l"," ","D","e","e","r">>}, {EMPTY, <<"d","e","e","r">>})

\* cells that are not what their column expects
BAD_DATE == <<"1","3","/","4","5","/","2","0","2","6">>
BAD_TIME == <<"2","5",":","6","1"," ","P","M">>
NOT_A_NUMBER == <<"n","/","a">>

\* the row of scenario 1 with the moon columns, and the rows that differ
\* from it in one or in all of the cells prep_df parses
GoodRow ==
    [camera |-> GATE, filename |-> IMG_0001, date |-> JAN_18, time |-> PM_0357,
     temp_f |-> TEMP_47, event_type |-> <<"P","e","r","s","o","n">>, species |-> EMPTY,
     species_clean |-> EMPTY, species_group |-> EMPTY,
     moon_phase |-> <<"f","u","l","l">>, moon_illumination |-> <<"9","8">>, moon_age_days |-> <<"1","4">>]

MalformedRows ==
    { GoodRow,
      [GoodRow EXCEPT !.date = BAD_DATE],
      [GoodRow EXCEPT !.time = BAD_TIME],
      [GoodRow EXCEPT !.date = EMPTY, !.time = EMPTY],
      [GoodRow EXCEPT !.temp_f = NOT_A_NUMBER],
      [GoodRow EXCEPT !.moon_illumination = NOT_A_NUMBER],
      [GoodRow EXCEPT !.moon_age_days = EMPTY, !.moon_phase = EMPTY],
      [GoodRow EXCEPT !.date = BAD_DATE, !.time = BAD_TIME, !.temp_f = NOT_A_NUMBER,
                      !.moon_illumination = <<"b","r","i","g","h","t">>, !.moon_age_days = <<"?">>,
                      !.moon_phase = <<"g","i","b","b","o","u","s","-","i","s","h">>] }

\* cells of the rows the filters are tried on
BARN == <<"B","a","r","n">>
JAN_19 == <<"0","1","/","1","9","/","2","0","2","6">>
AM_1200 == <<"1","2",":","0","0"," ","A","M">>
TEMP_48 == <<"4","8">>
DEER == <<"d","e","e","r">>
HOG == <<"h","o","g">>

\* rows that differ in what the filters look at: camera, calendar day and
\* time of day, temperature (one cell not a number, one empty), event type
\* and species (one row with neither), and one row whose date is no
\* calendar date
FilterRows ==
    { [camera |-> GATE, filename |-> IMG_0001, date |-> JAN_18, time |-> PM_0357,
       temp_f |-> TEMP_47, event_type |-> ANIMAL, species |-> DEER,
       species_clean |-> EMPTY, species_group |-> EMPTY],
      [camera |-> GATE, filename |-> IMG_0001, date |-> JAN_19, time |-> AM_1200,
       temp_f |-> TEMP_48, event_type |-> EMPTY, species |-> HOG,
       species_clean |-> EMPTY, species_group |-> EMPTY],
      [camera |-> BARN, filename |-> IMG_0001, date |-> JAN_18, time |-> AM_1200,
       temp_f |-> TEMP_47, event_type |-> ANIMAL, species |-> DEER,
       species_clean |-> EMPTY, species_group |-> EMPTY],
      [camera |-> GATE, filename |-> IMG_0001, date |-> JAN_18, time |-> PM_0357,
       temp_f |-> TEMP_47, event_type |-> <<"P","e","r","s","o","n">>, species |-> EMPTY,
       species_clean |-> EMPTY, species_group |-> EMPTY],
      [camera |-> GATE, filename |-> IMG_0001, date |-> JAN_18, time |-> PM_0357,
       temp_f |-> <<"n","/","a">>, event_type |-> ANIMAL, species |-> HOG,
       species_clean |-> EMPTY, species_group |-> EMPTY],
      [camera |-> GATE, filename |-> IMG_0001, date |-> JAN_19, time |-> AM_1200,
       temp_f |-> EMPTY, event_type |-> VEHICLE, species |-> EMPTY,
       species_clean |-> EMPTY, species_group |-> EMPTY],
      [camera |-> GATE, filename |-> IMG_0001, date |-> JAN_18, time |-> PM_0357,
       temp_f |-> TEMP_47, event_type |-> EMPTY, species |-> EMPTY,
       species_clean |-> EMPTY, species_group |-> EMPTY],
      [camera |-> GATE, filename |-> IMG_0001, date |-> <<"1","3","/","4","5","/","2","0","2","6">>, time |-> PM_0357,
       temp_f |-> TEMP_47, event_type |-> ANIMAL, species |-> DEER,
       species_clean |-> EMPTY, species_group |-> EMPTY] }

\* the columns of an events.csv, in the order of its header line
CsvHeader ==
    <<"camera", "filename", "date", "time", "temp_f", "event_type", "species",
      "species_clean", "species_group", "moon_phase", "moon_illumination",
      "moon_age_days">>

Header(t) ==
    LET Has(f) == f \in DOMAIN t[1]
    IN  SelectSeq(CsvHeader, Has)

\* tables that lack columns: the table of two full rows, the same without
\* one of its columns (each in turn), and with the file name only
SchemaTables(n) ==
    LET sets == {DOMAIN GoodRow} \cup {DOMAIN GoodRow \ {f} : f \in DOMAIN GoodRow}
                    \cup {{"filename"}}
    IN  UNION { Tables({ [f \in S |-> r[f]] :
                           r \in {GoodRow, [GoodRow EXCEPT !.event_type = ANIMAL,
                                                           !.species = DEER,
                                                           !.temp_f = NOT_A_NUMBER]} }, n) :
                S \in sets }

\* rows that differ in the moon_phase cell: empty, spellings of the two moon
\* maps in several cases, two spellings the maps do not know, each with
\* whitespace around it; and one row of a table without the column
MoonRows ==
    { [GoodRow EXCEPT !.moon_phase = c] :
          c \in Padded({EMPTY, <<"n","e","w">>, <<"N","e","w"," ","M","o","o","n">>, <<"T","h","i","r","d"," ","Q","u","a","r","t","e","r">>, <<"l","a","s","t"," ","q","u","a","r","t","e","r">>,
                        <<"F","U","L","L">>, <<"f","u","l","l"," ","m","o","o","n">>, <<"w","a","x","i","n","g"," ","c","r","e","s","c","e","n","t">>, <<"g","i","b","b","o","u","s","-","i","s","h">>,
                        <<"b","l","o","o","d"," ","m","o","o","n">>}) }
    \cup { [f \in DOMAIN GoodRow \ {"moon_phase"} |-> GoodRow[f]] }

\* a Drive with the folder "images" under the root and camera folders in
\* it, each with the files given: cams is a sequence of <<id, name, files>>
DriveOf(cams, flat) ==
    [root |-> <<"R">>, camera_root |-> <<"I">>,
     images_folder |-> IF flat = <<>> THEN EMPTY ELSE <<"L">>,
     folders |-> [f \in {<<"R">>, <<"I">>} |->
                     IF f = <<"R">> THEN << <<[id |-> <<"I">>, name |-> <<"i","m","a","g","e","s">>]>> >>
                     ELSE << [k \in 1..Len(cams) |-> [id |-> cams[k][1], name |-> cams[k][2]]] >>],
     files |-> [f \in {cams[k][1] : k \in 1..Len(cams)} \cup {<<"L">>} |->
                   IF f = <<"L">> THEN <<flat>>
                   ELSE << cams[CHOOSE k \in 1..Len(cams) : cams[k][1] = f][3] >>]]

\* a photo of the Drive
Photo(file_id, name) ==
    [id |-> file_id, name |-> name, webViewLink |-> <<"link of ">> \o file_id,
     mimeType |-> <<"i","m","a","g","e","/","j","p","e","g">>]

\* the Drives the resolvers are tried on: one camera folder "Gate" with
\* the photo of scenario 1; the folders "Gate" and "gate" with a photo of
\* that name each, and the same name in lower case; no camera folder but
\* the photo in the flat folder of the old layout
ResolveDrives ==
    { DriveOf(<< <<(<<"G">>), <<"G","a","t","e">>, <<Photo(<<"1">>, IMG_0001)>> >> >>, <<>>),
      DriveOf(<< <<(<<"G">>), <<"G","a","t","e">>, <<Photo(<<"1">>, IMG_0001)>> >>,
                 <<(<<"g">>), <<"g","a","t","e">>, <<Photo(<<"2">>, IMG_0001),
                                         Photo(<<"3">>, <<"i","m","g","_","0","0","0","1",".","j","p","g">>)>> >> >>, <<>>),
      DriveOf(<<>>, <<Photo(<<"9">>, IMG_0001)>>) }

\* sightings of a deer that differ in the camera and in the file name
ResolveRows ==
    Rows({<<"G","a","t","e">>, <<"g","a","t","e">>, <<" ","G","a","t","e"," ">>, <<"G","A","T","E">>, EMPTY},
         {IMG_0001, <<"i","m","g","_","0","0","0","1",".","j","p","g">>, <<"I","M","G","_","0","0","0","2",".","J","P","G">>, <<" ">>},
         {JAN_18}, {PM_0357}, {TEMP_47}, {ANIMAL}, {DEER}, {EMPTY}, {DEER})

\* sightings of a deer with a photo in the folder "Gate", with one in the
\* folder "gate", and with none
ThumbRows ==
    Rows({<<"G","a","t","e">>, <<"g","a","t","e">>}, {IMG_0001}, {JAN_18}, {PM_0357}, {TEMP_47},
         {ANIMAL}, {DEER}, {EMPTY}, {DEER})
    \cup
    Rows({<<"G","a","t","e">>}, {<<"I","M","G","_","0","0","0","2",".","J","P","G">>}, {JAN_19}, {PM_0357}, {TEMP_47},
         {ANIMAL}, {DEER}, {EMPTY}, {DEER})

\* tables for the charts: n species, the first seven of them seen twice, and
\* at most one sighting of an animal without a species
LabelChars == <<"b", "c", "d", "f", "g", "j", "k", "l", "m", "p", "q", "r", "s", "t", "w", "z">>
Sighting(sp) ==
    [camera |-> GATE, filename |-> IMG_0001, date |-> JAN_18, time |-> PM_0357,
     temp_f |-> TEMP_47, event_type |-> ANIMAL, species |-> sp,
     species_clean |-> sp, species_group |-> sp]
FrequentLabels == 7
TopNTables ==
    { [k \in 1..n |-> Sighting(<<LabelChars[k]>>)]
      \o [k \in 1..(IF n < FrequentLabels THEN n ELSE FrequentLabels) |->
             Sighting(<<LabelChars[k]>>)]
      \o [k \in 1..blank |-> Sighting(EMPTY)] : n \in 1..MaxLabels, blank \in 0..1 }

\* Drive folder trees for the walk: the root and three folders, each with a
\* listing of subfolders drawn from: none; one; two on two pages; one that
\* is also listed elsewhere, together with the root (a folder that is its
\* own descendant). The first folder has its files on two pages.
Folder(file_id) == [id |-> <<file_id>>, name |-> <<Lower(file_id)>>]
FolderListings ==
    { << <<>> >>,
      << <<Folder("B")>> >>,
      << <<Folder("A")>>, <<Folder("C")>> >>,
      << <<Folder("C"), Folder("R")>> >> }
WalkDrives ==
    { [root |-> <<"R">>, camera_root |-> <<"R">>, images_folder |-> EMPTY,
       folders |-> fl,
       files |-> [f \in {<<"R">>, <<"A">>, <<"B">>, <<"C">>} |->
                     IF f = <<"R">> THEN << <<>> >>
                     ELSE IF f = <<"A">>
                          THEN << <<Photo(<<"1">>, IMG_0001)>>,
                                  <<Photo(<<"2">>, <<"I","M","G","_","0","0","0","2",".","J","P","G">>)>> >>
                          ELSE << <<Photo(f \o <<"3">>, IMG_0001)>> >>]] :
         fl \in [{<<"R">>, <<"A">>, <<"B">>, <<"C">>} -> FolderListings] }

\* the widget state of a new session: the first section, nothing touched,
\* and a user who leaves include_other alone
DefaultWidgets ==
    [section |-> "Wildlife", camera_filter |-> Null, date_range |-> Null,
     temp_range |-> Null, species_filter |-> {}, include_other |-> TRUE,
     time_gran |-> "Hour", toggles |-> FALSE]

\* the same with the section "People" chosen, where sightings of persons show
PeopleWidgets == [DefaultWidgets EXCEPT !.section = "People"]

\* tables for the gallery: up to MaxGallery sightings of deer, around the
\* multiples of the page size, with or without two sightings of an animal
\* without a species; the user can switch "include other"
GallerySizes == {1, 8, 9, 16, MaxGallery}
GalleryTables ==
    { [k \in 1..n |-> Sighting(DEER)] \o [k \in 1..m |-> Sighting(EMPTY)] :
         n \in GallerySizes, m \in {0, 2} }
GalleryWidgetStates ==
    {[DefaultWidgets EXCEPT !.toggles = TRUE, !.include_other = io] : io \in BOOLEAN}

\* sightings at every hour of the day, alone and followed by a sighting one
\* or three hours later
HourTime(h) ==
    LET h12 == ((h + 11) % 12) + 1
    IN  <<Digit(h12 \div 10), Digit(h12 % 10), ":", "5", "7", " ",
          IF h < 12 THEN "A" ELSE "P", "M">>
SightingAt(h) == [Sighting(DEER) EXCEPT !.time = HourTime(h)]
HourTables ==
    {<<SightingAt(h)>> : h \in 0..23}
    \cup {<<SightingAt(h), SightingAt((h + d) % 24)>> : h \in 0..23, d \in {1, 3}}
GranWidgetStates ==
    {[DefaultWidgets EXCEPT !.time_gran = g] : g \in {"Hour", "2-hour", "4-hour"}}

\* the widget states tried in the Wildlife section: nothing touched, every
\* camera unselected, one camera and one species selected, a date range of
\* one day, a temperature range of one degree
Touched ==
    { [camera_filter |-> Null, date_range |-> Null, temp_range |-> Null,
       species_filter |-> {}],
      [camera_filter |-> <<{}>>, date_range |-> Null, temp_range |-> Null,
       species_filter |-> {}],
      [camera_filter |-> <<{GATE}>>, date_range |-> Null, temp_range |-> Null,
       species_filter |-> {DEER}],
      [camera_filter |-> Null, date_range |-> <<(<<2026, 1, 18>>), (<<2026, 1, 18>>)>>,
       temp_range |-> Null, species_filter |-> {}],
      [camera_filter |-> Null, date_range |-> Null, temp_range |-> <<47, 47>>,
       species_filter |-> {}] }

\* every section with nothing touched, and Wildlife with the widgets touched
WidgetStates ==
    { [DefaultWidgets EXCEPT !.section = sec] : sec \in {"Wildlife", "People", "Vehicles"} }
    \cup
    { [DefaultWidgets EXCEPT !.camera_filter = t.camera_filter,
                             !.date_range = t.date_range,
                             !.temp_range = t.temp_range,
                             !.species_filter = t.species_filter] : t \in Touched }

\* rows that differ in the label prep_df gives them ("deer", "hog" and, for
\* three of them, "Other"), in the time of day and in the event type
OtherRows ==
    { [GoodRow EXCEPT !.event_type = ANIMAL, !.species_group = DEER],
      [GoodRow EXCEPT !.event_type = ANIMAL, !.species_clean = HOG,
                      !.date = JAN_19, !.time = AM_1200],
      [GoodRow EXCEPT !.event_type = ANIMAL],
      [GoodRow EXCEPT !.event_type = ANIMAL, !.date = BAD_DATE],
      GoodRow }

\* the sections and the settings of the pattern charts and of the gallery
OtherWidgetStates ==
    { [DefaultWidgets EXCEPT !.section = sec, !.include_other = io, !.time_gran = g] :
          sec \in {"Wildlife", "People"}, io \in BOOLEAN,
          g \in {"Hour", "2-hour", "4-hour"} }

---------------------------------------------------------------------------
(* The state machine *)

\* a Drive that holds the root folder only, with nothing in it
EmptyDrive ==
    [root |-> <<"R">>, camera_root |-> <<"R">>, images_folder |-> EMPTY,
     folders |-> [f \in {<<"R">>} |-> << <<>> >>],
     files |-> [f \in {<<"R">>} |-> << <<>> >>]]

\* T: the tables, W: the widget states, D: the Drives drawn; reversed: the
\* columns of the file are also drawn in the reverse order
InitDrive(T, W, reversed, D) ==
    /\ raw \in T
    /\ df = raw
    /\ out = <<>>
    /\ pc = "loaded"
    /\ widgets \in W
    /\ crit = Null
    /\ base = <<>>
    /\ ui = Null
    /\ \E h \in {Header(raw)} \cup
                 (IF reversed
                  THEN {[k \in 1..Len(Header(raw)) |-> Header(raw)[Len(Header(raw)) + 1 - k]]}
                  ELSE {}) :
          columns = [raw |-> h, df |-> h, out |-> <<>>]
    /\ drive \in D
    /\ walk = [WalkStart(EMPTY) EXCEPT !.phase = "idle", !.folders = <<>>, !.queue = <<>>]
    /\ page = Null
    /\ session = [cache |-> <<>>, failed |-> {}]
    /\ gallery_limit = 0

InitOrdered(T, W, reversed) == InitDrive(T, W, reversed, {EmptyDrive})

InitOf(T, W) == InitOrdered(T, W, FALSE)

InitWith(T) == InitOf(T, {DefaultWidgets})

\* the columns the load pipeline inserts when the table lacks them, in the
\* order in which it inserts them
AppColumnList == <<"camera", "event_type", "species", "filename", "temp_f">>

normalize_columns(r) ==
    [f \in DOMAIN r \cup {AppColumnList[k] : k \in 1..Len(AppColumnList)} |->
        IF f = "temp_f" THEN ToNumeric(Get(r, f, EMPTY))
        ELSE Get(r, f, EMPTY)]

\* streamlit_app.py, "normalize columns safely" and "temp_f": the text
\* columns become str, temp_f becomes numeric
NormalizeColumns ==
    /\ pc = "loaded"
    /\ df' = [i \in 1..Len(df) |-> normalize_columns(df[i])]
    /\ columns' = [columns EXCEPT !.df = AssignAll(@, AppColumnList)]
    /\ pc' = "columns"
    /\ UNCHANGED <<raw, out, widgets, crit, base, ui, drive, walk, page, session, gallery_limit>>

\* streamlit_app.py, "normalize event/species" and "datetime"
NormalizeEventSpecies ==
    /\ pc = "columns"
    /\ df' = [i \in 1..Len(df) |->
                 WithColumn([df[i] EXCEPT !.event_type = normalize_event_type(@),
                                          !.species = normalize_species(@)],
                            "datetime", AppBuildDatetime(df[i]))]
    /\ columns' = [columns EXCEPT !.df = Assign(@, "datetime")]
    /\ pc' = "normalized"
    /\ UNCHANGED <<raw, out, widgets, crit, base, ui, drive, walk, page, session, gallery_limit>>

\* streamlit_app.py, "derive event_type if blank"
DeriveType ==
    /\ pc = "normalized"
    /\ df' = [i \in 1..Len(df) |-> [df[i] EXCEPT !.event_type = _derive_type(df[i])]]
    /\ pc' = "derived"
    /\ UNCHANGED <<raw, out, widgets, crit, base, ui, columns, drive, walk, page, session, gallery_limit>>

CleanCamera(c) ==
    LET x == LowerStr(_safe_str(c))
    IN  IF x = EMPTY THEN UNKNOWN ELSE x

\* streamlit_app.py, "camera cleanup"
CameraCleanup ==
    /\ pc = "derived"
    /\ df' = [i \in 1..Len(df) |-> [df[i] EXCEPT !.camera = CleanCamera(@)]]
    /\ pc' = "done"
    /\ UNCHANGED <<raw, out, widgets, crit, base, ui, columns, drive, walk, page, session, gallery_limit>>

\* data_prep.py, a call of prep_df on the table as read
PrepDf ==
    /\ out = <<>>
    /\ out' = prep_df(raw)
    /\ columns' = [columns EXCEPT !.out = prep_df_columns(columns.raw)]
    /\ UNCHANGED <<raw, df, pc, widgets, crit, base, ui, drive, walk, page, session, gallery_limit>>

\* streamlit_app.py, "valid": the script stops when no row has a timestamp,
\* and calls _list_drive_files_recursive otherwise
Validate ==
    /\ pc = "done"
    /\ pc' = IF DropNaDatetime(df) = <<>> THEN "no_data" ELSE "valid"
    /\ walk' = IF DropNaDatetime(df) = <<>> THEN walk ELSE WalkStart(drive.root)
    /\ UNCHANGED <<raw, df, out, widgets, crit, base, ui, columns, drive, page, session, gallery_limit>>

\* _list_drive_files_recursive, one request for a page of subfolders
ListFoldersPage ==
    /\ pc = "valid"
    /\ walk.phase = "folders"
    /\ walk' = list_folders_page(drive, walk)
    /\ UNCHANGED <<raw, df, out, pc, widgets, crit, base, ui, columns, drive, page, session, gallery_limit>>

\* _list_drive_files_recursive, one request for a page of files; after the
\* last one the function returns and the script goes on
ListFilesPage ==
    /\ pc = "valid"
    /\ walk.phase = "files"
    /\ walk' = list_files_page(drive, walk)
    /\ pc' = IF list_files_page(drive, walk).phase = "done" THEN "indexed" ELSE pc
    /\ UNCHANGED <<raw, df, out, widgets, crit, base, ui, columns, drive, page, session, gallery_limit>>

\* streamlit_app.py, "Sidebar (filters)"
Sidebar ==
    /\ pc = "indexed"
    /\ Offered(widgets, DropNaDatetime(df))
    /\ crit' = [section |-> widgets.section,
                camera_filter |-> camera_filter(widgets, DropNaDatetime(df)),
                date_range |-> date_range(widgets, DropNaDatetime(df)),
                temp_range |-> temp_range(widgets, DropNaDatetime(df)),
                species_filter |-> species_filter(widgets, DropNaDatetime(df))]
    /\ pc' = "sidebar"
    /\ UNCHANGED <<raw, df, out, widgets, base, ui, columns, drive, walk, page, session, gallery_limit>>

\* streamlit_app.py, "Apply filters (section-pure)": the script stops when
\* no row is selected
ApplyFilters ==
    /\ pc = "sidebar"
    /\ base' = FilterChain(WithIndex(df), crit)
    /\ pc' = IF FilterChain(WithIndex(df), crit) = <<>> THEN "no_match" ELSE "view"
    /\ UNCHANGED <<raw, df, out, widgets, crit, ui, columns, drive, walk, page, session, gallery_limit>>

\* the file ids the cards of a run ask load_thumbnail_cached for
CardFiles(frame, section, include_other, image_index, limit_state) ==
    LET shown == display_view(gallery_view(frame, section, include_other),
                              IF limit_state = 0 THEN GalleryLimit ELSE limit_state)
    IN  {resolve_image_link(shown[k].camera, shown[k].filename, image_index)[2] :
            k \in 1..Len(shown)} \ {EMPTY}

\* ui_components.py: a run of the pattern charts and of the gallery on the
\* table of prep_df. The first run, or a later one: after a click on Load
\* More (the limit grows by 8 and the page is run again), after the user
\* switched include_other, or after cached thumbnails have expired. A
\* thumbnail that is not cached is downloaded, which may fail, and what
\* load_thumbnail_cached returned is cached.
RenderRun(click, toggle, expired) ==
    /\ out # <<>>
    /\ click => ui # Null /\ ui.listing.load_more /\ ~toggle
    /\ toggle => ui # Null /\ widgets.toggles
    /\ ui = Null \/ click \/ toggle \/ expired # {}
    /\ LET include_other == IF toggle THEN ~widgets.include_other
                            ELSE widgets.include_other
           limit == gallery_limit + (IF click THEN 8 ELSE 0)
           patterns == render_patterns(out, widgets.section, include_other,
                                       widgets.time_gran)
           image_index == index_images_by_camera(drive, drive.camera_root)
           cached == DOMAIN session.cache \ expired
           asked == CardFiles(patterns.base, widgets.section, include_other,
                              image_index, limit) \ cached
       IN  \E failed \in SUBSET asked :
              LET cache == [f \in cached \cup asked |->
                               IF f \in asked THEN f \notin failed
                               ELSE session.cache[f]]
                  listing == render_listing_and_viewer(
                                 patterns.base, widgets.section, include_other,
                                 image_index, limit, cache)
              IN  /\ ui' = [patterns |-> patterns, listing |-> listing]
                  /\ session' = [cache |-> cache, failed |-> session.failed \cup failed]
                  /\ gallery_limit' = listing.gallery_limit
                  /\ widgets' = [widgets EXCEPT !.include_other = include_other]
    /\ UNCHANGED <<raw, df, out, pc, crit, base, columns, drive, walk, page>>

\* any run of the page
Render ==
    \E click \in BOOLEAN, toggle \in BOOLEAN, expired \in SUBSET DOMAIN session.cache :
       RenderRun(click, toggle, expired)

\* the runs of the page that a click on Load More starts: the button was
\* offered and the run has the limit grown by 8
LoadMore ==
    /\ out # <<>>
    /\ ui # Null
    /\ ui.listing.load_more
    /\ gallery_limit' = gallery_limit + 8

\* streamlit_app.py, "Photo Viewer": the sighting selected (the first
\* option, the latest sighting, while the user selects no other), its link
\* and the preview, whose download may fail
Dashboard ==
    /\ pc = "view"
    /\ LET view == SortDescending(DropNaDatetime(base))
           link == AppResolveImageLink(view[1], walk.out,
                                       list_images_in_folder(drive, drive.images_folder))
       IN  \E ok \in (IF link[2] # EMPTY THEN BOOLEAN ELSE {TRUE}),
              top10 \in TopSpecies(ChartDf(base), TimelineTop),
              top8 \in TopSpecies(Patt(base), PatternsTop) :
              LET patt == WithSpeciesGroup(Patt(base), widgets.section, top8)
              IN  page' = [chart_top |-> top10,
                           chart_df |-> WithSpeciesGroup(ChartDf(base), widgets.section, top10),
                           patt_top |-> top8,
                           patt |-> patt,
                           by_hour |-> GroupSizes(patt, "hour",
                                                  IF widgets.section = "Wildlife"
                                                  THEN "species_group" ELSE "event_type"),
                           chosen |-> view[1].index, url |-> link[1], fid |-> link[2],
                           preview |-> IF link[2] = EMPTY THEN "none"
                                       ELSE IF ok THEN "image" ELSE "error"]
    /\ pc' = "shown"
    /\ UNCHANGED <<raw, df, out, widgets, crit, base, ui, columns, drive, walk, session, gallery_limit>>

Next ==
    \/ NormalizeColumns
    \/ NormalizeEventSpecies
    \/ DeriveType
    \/ CameraCleanup
    \/ Validate
    \/ ListFoldersPage
    \/ ListFilesPage
    \/ Sidebar
    \/ ApplyFilters
    \/ Dashboard
    \/ PrepDf
    \/ Render

Init == InitWith(Tables(MixedRows, 1))
Spec == Init /\ [][Next]_vars

InitEventType == InitWith(Tables(EventTypeRows, 1))
SpecEventType == InitEventType /\ [][Next]_vars

InitSpecies == InitWith(Tables(SpeciesRows, 1))
SpecSpecies == InitSpecies /\ [][Next]_vars

InitId == InitWith(Tables(IdRows, MaxRows))
SpecId == InitId /\ [][Next]_vars

InitFriendly == InitWith(Tables(FriendlyRows, MaxRows))
SpecFriendly == InitFriendly /\ [][Next]_vars

InitMalformed == InitOf(Tables(MalformedRows, MaxRows), {PeopleWidgets})
SpecMalformed == InitMalformed /\ [][Next]_vars

InitOther == InitOf(Tables(OtherRows, MaxRows), OtherWidgetStates)
SpecOther == InitOther /\ [][Next]_vars

InitFilter == InitOf(Tables(FilterRows, MaxRows), WidgetStates)
SpecFilter == InitFilter /\ [][Next]_vars

\* the header line in the order of CsvHeader or in the opposite order
InitSchema ==
    InitOrdered(SchemaTables(MaxRows), {DefaultWidgets}, TRUE)
SpecSchema == InitSchema /\ [][Next]_vars

InitMoon == InitOf(Tables(MoonRows, 1), {PeopleWidgets})
SpecMoon == InitMoon /\ [][Next]_vars

InitResolve ==
    InitDrive(Tables(ResolveRows, 1), {DefaultWidgets}, FALSE, ResolveDrives)
SpecResolve == InitResolve /\ [][Next]_vars

InitThumbs ==
    InitDrive(Tables(ThumbRows, MaxRows), {DefaultWidgets}, FALSE,
              { DriveOf(<< <<(<<"G">>), <<"G","a","t","e">>, <<Photo(<<"1">>, IMG_0001)>> >>,
                           <<(<<"g">>), <<"g","a","t","e">>, <<Photo(<<"2">>, IMG_0001)>> >> >>, <<>>) })
SpecThumbs == InitThumbs /\ [][Next]_vars

InitTopN == InitOf(TopNTables, {DefaultWidgets})
SpecTopN == InitTopN /\ [][Next]_vars

InitBins == InitOf(HourTables, GranWidgetStates)
SpecBins == InitBins /\ [][Next]_vars

\* the user who sees the Load More button clicks it
InitGallery == InitOf(GalleryTables, GalleryWidgetStates)
SpecGallery == InitGallery /\ [][Next]_vars /\ WF_gallery_limit(LoadMore)

\* the walk of the Drive, once started, goes on to its next request
InitWalk ==
    InitDrive({<<Sighting(DEER)>>}, {DefaultWidgets}, FALSE, WalkDrives)
SpecWalk ==
    InitWalk /\ [][Next]_vars /\ WF_vars(ListFoldersPage) /\ WF_vars(ListFilesPage)

\* the positions of the script from which the table no longer changes
AfterLoad ==
    {"done", "no_data", "valid", "indexed", "sidebar", "no_match", "view", "shown"}

\* the rows of the streamlit_app.py table once species and event type are
\* normalized, and the rows prep_df returned
Normalized == pc \in {"normalized", "derived"} \cup AfterLoad
Loaded == pc \in AfterLoad
Prepped == out # <<>>

---------------------------------------------------------------------------
(* Properties *)

AppRows == 1..Len(df)
PrepRows == 1..Len(out)

\* the raw cell, trimmed and lowercased
Canon(cell) == LowerStr(Strip(cell))

\* C1: every human row carries the label "human" and every vehicle row the
\* label "vehicle", whatever its species cells hold (label = species in the
\* streamlit_app.py table, wildlife_label in the table of prep_df).
C1_LabelForcedToCategory ==
    /\ Loaded =>
          \A i \in AppRows :
              /\ df[i].event_type = HUMAN => df[i].species = HUMAN
              /\ df[i].event_type = VEHICLE => df[i].species = VEHICLE
    /\ Prepped =>
          \A i \in PrepRows :
              /\ out[i].event_type = HUMAN => out[i].wildlife_label = HUMAN
              /\ out[i].event_type = VEHICLE => out[i].wildlife_label = VEHICLE

\* C2: no wildlife row (event_type "animal") carries the label "human" or
\* "vehicle", and no row of the Wildlife section is shown with such a label.
C2_NoHumanVehicleLabelOnWildlife ==
    /\ Loaded =>
          \A i \in AppRows :
              (df[i].event_type = ANIMAL \/ SectionPure("Wildlife", df[i]))
                  => df[i].species \notin {HUMAN, VEHICLE}
    /\ Prepped =>
          \A i \in PrepRows :
              out[i].event_type = ANIMAL => out[i].wildlife_label \notin {HUMAN, VEHICLE}

\* C3: wildlife_label is the trimmed species_group when that is non-empty,
\* otherwise the trimmed species_clean when that is non-empty, otherwise
\* "Other"; it is never the empty string.
C3_WildlifeLabelPriority ==
    Prepped =>
        \A i \in PrepRows :
            LET g == Strip(raw[i].species_group)
                c == Strip(raw[i].species_clean)
            IN  /\ g # EMPTY => out[i].wildlife_label = g
                /\ (g = EMPTY /\ c # EMPTY) => out[i].wildlife_label = c
                /\ (g = EMPTY /\ c = EMPTY) => out[i].wildlife_label = OTHER_LABEL
                /\ out[i].wildlife_label # EMPTY

\* a row with species_group "deer" and a species_clean value is labelled "deer"
C3_Witness ==
    /\ Prepped
    /\ \E i \in PrepRows :
          /\ Strip(raw[i].species_group) = <<"d","e","e","r">>
          /\ Strip(raw[i].species_clean) \notin {EMPTY, <<"d","e","e","r">>}
          /\ out[i].wildlife_label = <<"d","e","e","r">>

SameIdFields(r1, r2) ==
    /\ r1.camera = r2.camera
    /\ r1.filename = r2.filename
    /\ r1.date = r2.date
    /\ r1.time = r2.time

IsHex10(id) ==
    /\ Len(id) = 10
    /\ \A k \in 1..10 : \E d \in 1..16 : HexDigits[d] = id[k]

\* C4: two rows with the same camera, filename, date and time get the same
\* event_id of 10 hexadecimal characters, whatever their other fields and
\* their positions in the table.
C4_EventIdFunctionOfFourFields ==
    Prepped =>
        \A i, j \in PrepRows :
            /\ IsHex10(out[i].event_id)
            /\ SameIdFields(raw[i], raw[j]) => out[i].event_id = out[j].event_id

\* two rows at different positions, equal in the four fields, with different
\* temperatures (one numeric, one null) and the same event_id
C4_Witness ==
    /\ Prepped
    /\ \E i, j \in PrepRows :
          /\ i # j
          /\ SameIdFields(raw[i], raw[j])
          /\ raw[i].temp_f # raw[j].temp_f
          /\ out[i].temp_f # out[j].temp_f
          /\ out[i].event_id = out[j].event_id

\* C5: two rows whose (camera, filename, date, time) tuples differ are hashed
\* from different strings.
C5_DistinctTuplesDistinctBase ==
    Prepped =>
        \A i, j \in PrepRows :
            ~SameIdFields(out[i], out[j]) => EventIdBase(out[i]) # EventIdBase(out[j])

\* C6: "person" and "people", in any casing and with surrounding whitespace,
\* become "human", in normalize_event_type and in prep_df.
C6_PersonPeopleToHuman ==
    /\ pc = "normalized" =>
          \A i \in AppRows :
              Canon(raw[i].event_type) \in {PERSON, PEOPLE} => df[i].event_type = HUMAN
    /\ Prepped =>
          \A i \in PrepRows :
              Canon(raw[i].event_type) \in {PERSON, PEOPLE} => out[i].event_type = HUMAN

\* C7 as stated: empty, "blank", "none" and "nan" become the empty category
\* and "animal" and "vehicle" pass through, in normalize_event_type and in
\* prep_df alike.
C7_EmptyCategoryBoth ==
    /\ pc = "normalized" =>
          \A i \in AppRows :
              LET s == Canon(raw[i].event_type)
              IN  /\ s \in {EMPTY, BLANK, NONE, NAN} => df[i].event_type = EMPTY
                  /\ s \in {ANIMAL, VEHICLE} => df[i].event_type = s
    /\ Prepped =>
          \A i \in PrepRows :
              LET s == Canon(raw[i].event_type)
              IN  /\ s \in {EMPTY, BLANK, NONE, NAN} => out[i].event_type = EMPTY
                  /\ s \in {ANIMAL, VEHICLE} => out[i].event_type = s

\* C7 as amended: normalize_event_type maps empty, "blank", "none" and "nan"
\* to the empty category; prep_df maps only the empty (or all-whitespace)
\* cell to it and keeps "blank", "none" and "nan", trimmed and lowercased;
\* both pass "animal" and "vehicle" through.
C7_EmptyCategory ==
    /\ pc = "normalized" =>
          \A i \in AppRows :
              LET s == Canon(raw[i].event_type)
              IN  /\ s \in {EMPTY, BLANK, NONE, NAN} => df[i].event_type = EMPTY
                  /\ s \in {ANIMAL, VEHICLE} => df[i].event_type = s
    /\ Prepped =>
          \A i \in PrepRows :
              LET s == Canon(raw[i].event_type)
              IN  /\ s = EMPTY => out[i].event_type = EMPTY
                  /\ s \in {BLANK, NONE, NAN} => out[i].event_type = s
                  /\ s \in {ANIMAL, VEHICLE} => out[i].event_type = s

\* a padded, capitalised "blank" that normalize_event_type empties and
\* prep_df keeps
C7_Witness ==
    /\ pc = "normalized"
    /\ Prepped
    /\ \E i \in AppRows :
          /\ Canon(raw[i].event_type) = BLANK
          /\ Strip(raw[i].event_type) # raw[i].event_type
          /\ Strip(raw[i].event_type) # BLANK
          /\ df[i].event_type = EMPTY
          /\ out[i].event_type = BLANK

\* C8: a raw species that contains "vehicle" (in any casing) becomes
\* "vehicle"; otherwise one that contains "human" or "person" becomes
\* "human"; both tests read the whole string, before any split.
C8_VehicleThenHuman ==
    Normalized =>
        \A i \in AppRows :
            LET low == LowerStr(raw[i].species)
            IN  /\ Contains(low, VEHICLE) => df[i].species = VEHICLE
                /\ (~Contains(low, VEHICLE)
                      /\ (Contains(low, HUMAN) \/ Contains(low, PERSON)))
                   => df[i].species = HUMAN

\* the segments of a raw species string, trimmed
Segments(cell) == LET segs == Split(cell) IN [k \in 1..Len(segs) |-> Strip(segs[k])]

\* a string with "vehicle" in an earlier segment and "human" or "person" in
\* its last segment, normalized to "vehicle"
C8_Witness ==
    /\ Normalized
    /\ \E i \in AppRows :
          LET segs == Segments(raw[i].species)
              last == LowerStr(segs[Len(segs)])
          IN  /\ Len(segs) >= 2
              /\ Contains(LowerStr(raw[i].species), VEHICLE)
              /\ ~Contains(last, VEHICLE)
              /\ Contains(last, HUMAN) \/ Contains(last, PERSON)
              /\ df[i].species = VEHICLE

NoSubjectWord(cell) ==
    LET low == LowerStr(cell)
    IN  ~Contains(low, VEHICLE) /\ ~Contains(low, HUMAN) /\ ~Contains(low, PERSON)

\* r is the last non-empty trimmed segment of s, or s when it has none
IsLastSegment(r, s) ==
    LET segs == Segments(s)
    IN  \/ /\ \A k \in 1..Len(segs) : segs[k] = EMPTY
           /\ r = s
        \/ \E k \in 1..Len(segs) :
              /\ segs[k] # EMPTY
              /\ r = segs[k]
              /\ \A j \in (k + 1)..Len(segs) : segs[j] = EMPTY

\* C9 as stated: a raw species without "vehicle", "human" and "person" is
\* lowercased and trimmed, and its last non-empty segment is returned.
C9_LowercasedLastSegment ==
    Normalized =>
        \A i \in AppRows :
            NoSubjectWord(raw[i].species)
                => IsLastSegment(df[i].species, Canon(raw[i].species))

\* C9 as amended: such a string is trimmed and its last non-empty segment is
\* returned, trimmed, in the casing of the input; the result is the empty
\* string when the trimmed string is empty, "nan" or "none" (in any casing),
\* and the whole trimmed string when every segment is blank.
C9_LastSegmentCasePreserved ==
    Normalized =>
        \A i \in AppRows :
            NoSubjectWord(raw[i].species) =>
                IF Canon(raw[i].species) \in {EMPTY, NAN, NONE}
                THEN df[i].species = EMPTY
                ELSE IsLastSegment(df[i].species, Strip(raw[i].species))

\* three segments, the last one empty, the one before it in mixed case and
\* padded: it is returned trimmed and in its own casing
C9_Witness ==
    /\ Normalized
    /\ \E i \in AppRows :
          LET segs == Split(raw[i].species)
          IN  /\ NoSubjectWord(raw[i].species)
              /\ Len(segs) = 3
              /\ segs[3] = EMPTY
              /\ segs[1] # EMPTY
              /\ Strip(segs[2]) # segs[2]
              /\ LowerStr(segs[2]) # segs[2]
              /\ df[i].species = Strip(segs[2])

\* C10: the species normalizer returns "Other" when the trimmed result is
\* empty, "animal" or "unknown", and never returns the empty string; the
\* wildlife label of prep_df likewise.
C10_OtherSentinel ==
    /\ Normalized =>
          \A i \in AppRows :
              /\ Canon(raw[i].species) \in {EMPTY, ANIMAL, UNKNOWN}
                    => df[i].species = OTHER_LABEL
              /\ df[i].species # EMPTY
    /\ Prepped =>
          \A i \in PrepRows :
              /\ (Canon(raw[i].species_group) \in {EMPTY, ANIMAL, UNKNOWN}
                    /\ Canon(raw[i].species_clean) \in {EMPTY, ANIMAL, UNKNOWN})
                    => out[i].wildlife_label = OTHER_LABEL
              /\ out[i].wildlife_label # EMPTY

Derived == pc \in {"derived"} \cup AfterLoad

\* C11: when the normalized event type of a row is empty, the event type is
\* inferred from the normalized species: "human" gives "human", "vehicle"
\* gives "vehicle", any other non-empty species gives "animal", an empty
\* species gives the empty (unknown) event type.
C11_CategoryInferredFromLabel ==
    Derived =>
        \A i \in AppRows :
            Canon(raw[i].event_type) \in {EMPTY, BLANK, NONE, NAN} =>
                LET label == normalize_species(raw[i].species)
                IN  /\ df[i].species = label
                    /\ label = HUMAN => df[i].event_type = HUMAN
                    /\ label = VEHICLE => df[i].event_type = VEHICLE
                    /\ label \notin {HUMAN, VEHICLE, EMPTY} => df[i].event_type = ANIMAL
                    /\ label = EMPTY => df[i].event_type = EMPTY

\* a row without event type whose raw species is not "vehicle" itself but
\* normalizes to it: the inference reads the normalized species
C11_Witness ==
    /\ Derived
    /\ \E i \in AppRows :
          /\ Canon(raw[i].event_type) = BLANK
          /\ Canon(raw[i].species) \notin {VEHICLE, HUMAN, EMPTY}
          /\ df[i].species = VEHICLE
          /\ df[i].event_type = VEHICLE

\* C12: the friendly name of every prepared row is WHEN, CAMERA, LABEL and
\* SUFFIX joined by the bullet separator: WHEN is the timestamp as month
\* abbreviation, day, 12-hour time and AM/PM, or "Unknown time" when the
\* timestamp is null; CAMERA is the camera, or "unknown" when it is empty;
\* LABEL is "Human" or "Vehicle" for those event types and otherwise the
\* wildlife label, never empty; SUFFIX is the last 8 characters of the file
\* name, or the whole file name when it is shorter than 8.
C12_FriendlyName ==
    Prepped =>
        \A i \in PrepRows :
            LET r == out[i]
                n == Len(r.filename)
                WHEN == IF r.datetime = Null THEN UNKNOWN_TIME
                        ELSE Strftime(r.datetime)
                CAMERA == IF r.camera = EMPTY THEN UNKNOWN ELSE r.camera
                LABEL == IF r.event_type = HUMAN THEN <<"H","u","m","a","n">>
                         ELSE IF r.event_type = VEHICLE THEN <<"V","e","h","i","c","l","e">>
                         ELSE r.wildlife_label
                SUFFIX == IF n < 8 THEN r.filename
                          ELSE [k \in 1..8 |-> r.filename[n - 8 + k]]
            IN  /\ r.friendly_name =
                       WHEN \o BULLET \o CAMERA \o BULLET \o LABEL \o BULLET \o SUFFIX
                /\ LABEL # EMPTY

\* scenario 1, the gate camera's photo of a person on Jan 18 at 03:57 PM,
\* next to a row whose date is no calendar date
C12_Witness ==
    /\ Prepped
    /\ \E i \in PrepRows :
          /\ raw[i].event_type = <<"P","e","r","s","o","n">>
          /\ raw[i].filename = IMG_0001
          /\ out[i].friendly_name =
                 <<"J","a","n"," ","1","8"," ","0","3",":","5","7"," ","P","M">> \o BULLET \o <<"g","a","t","e">> \o BULLET \o <<"H","u","m","a","n">>
                     \o BULLET \o <<"0","0","0","1",".","J","P","G">>
    /\ \E j \in PrepRows :
          /\ out[j].datetime = Null
          /\ SubSeq(out[j].friendly_name, 1, Len(UNKNOWN_TIME)) = UNKNOWN_TIME

Filtered == pc \in {"no_match", "view", "shown"}

BaseRows == 1..Len(base)

\* the labels of the rows of a table, in the order of the table
Labels(b) == [k \in 1..Len(b) |-> b[k].index]

\* what the criteria ask of one row
PassesCamera(r, c) == r.camera \in c.camera_filter
PassesSection(r, c) ==
    \/ c.section = "Wildlife" /\ r.event_type = ANIMAL
    \/ c.section = "People" /\ r.event_type = HUMAN
    \/ c.section = "Vehicles" /\ r.event_type = VEHICLE
PassesDate(r, c) ==
    /\ r.datetime # Null
    /\ DateLeq(c.date_range[1], <<r.datetime[1], r.datetime[2], r.datetime[3]>>)
    /\ DateLeq(<<r.datetime[1], r.datetime[2], r.datetime[3]>>, c.date_range[2])
PassesTemp(r, c) ==
    c.temp_range # Null =>
        /\ r.temp_f # Null
        /\ c.temp_range[1] <= r.temp_f[1]
        /\ r.temp_f[1] <= c.temp_range[2]
PassesSpecies(r, c) ==
    (c.section = "Wildlife" /\ c.species_filter # {}) => r.species \in c.species_filter

Passes(r, c) ==
    /\ PassesCamera(r, c)
    /\ PassesSection(r, c)
    /\ PassesDate(r, c)
    /\ PassesTemp(r, c)
    /\ PassesSpecies(r, c)

\* C13: the rows the filter chain selects are exactly the rows of the table
\* that pass every one of the criteria (section, camera, date, temperature,
\* species), they come in the order of the table, and the chain applied
\* with the same criteria to its own result returns that result.
C13_ConjunctionOrderIdempotent ==
    Filtered =>
        /\ \A i \in AppRows :
               Passes(df[i], crit) <=> \E k \in BaseRows : base[k].index = i
        /\ \A k \in BaseRows :
               /\ base[k].index \in AppRows
               /\ \A f \in DOMAIN df[base[k].index] : base[k][f] = df[base[k].index][f]
        /\ \A k \in BaseRows, l \in BaseRows : k < l => base[k].index < base[l].index
        /\ FilterChain(base, crit) = base

\* a camera and a species are selected, the first row of the table does not
\* pass and the second does
C13_Witness ==
    /\ pc = "view"
    /\ widgets.camera_filter # Null
    /\ crit.species_filter # {}
    /\ Len(df) = 2
    /\ Labels(base) = <<2>>
    /\ FilterChain(base, crit) = base

\* the labels of the rows the chain selects from the table under criteria c
Selected(c) == Column(FilterChain(WithIndex(df), c), "index")

\* the widest date range the sidebar offers
WidestDates == <<MinDate(DropNaDatetime(df)), MaxDate(DropNaDatetime(df))>>

\* the criteria with one restriction lifted: no species selected, no
\* temperature range, the widest date range, or more cameras selected
Relaxed(c) ==
    { [c EXCEPT !.species_filter = {}],
      [c EXCEPT !.temp_range = Null],
      [c EXCEPT !.date_range = WidestDates] }
    \cup
    { [c EXCEPT !.camera_filter = S] :
          S \in {T \in SUBSET camera_options(DropNaDatetime(df)) : c.camera_filter \subseteq T} }

\* the criteria with one widget cleared: no species selected, no temperature
\* range, the widest date range, or no camera selected
Cleared(c) ==
    { [c EXCEPT !.species_filter = {}],
      [c EXCEPT !.temp_range = Null],
      [c EXCEPT !.date_range = WidestDates],
      [c EXCEPT !.camera_filter = {}] }

\* C14 (as stated): the rows selected under the criteria are among the rows
\* selected under the same criteria with one restriction removed, be it the
\* camera restriction, the date range, the temperature range or the species
\* restriction.
C14_ClearingNeverShrinks ==
    Filtered => \A c2 \in Cleared(crit) : Column(base, "index") \subseteq Selected(c2)

\* C14 (amended): the rows selected under the criteria are among the rows
\* selected with no species selected, with no temperature range, with the
\* widest date range, or with more cameras selected; with no camera
\* selected no row is selected.
C14_RelaxingNeverShrinks ==
    Filtered =>
        /\ \A c2 \in Relaxed(crit) : Column(base, "index") \subseteq Selected(c2)
        /\ crit.camera_filter = {} => base = <<>>
        /\ Selected([crit EXCEPT !.camera_filter = {}]) = {}

\* one camera and one species are selected; lifting the species restriction
\* selects a second row
C14_Witness ==
    /\ pc = "view"
    /\ crit.camera_filter = {GATE}
    /\ crit.species_filter = {DEER}
    /\ Column(base, "index") = {1}
    /\ Selected([crit EXCEPT !.species_filter = {}]) = {1, 2}

\* the days from 1 January of year 0 to a date, counting every month as 31
\* days: larger for a later date
DayNumber(d) == (d[1] * 12 + (d[2] - 1)) * 31 + d[3]

\* the row passes the criteria other than the date range
PassesOthers(r, c) ==
    /\ r.datetime # Null
    /\ PassesCamera(r, c)
    /\ PassesSection(r, c)
    /\ PassesTemp(r, c)
    /\ PassesSpecies(r, c)

\* C15: of the rows that pass the other criteria, the date filter keeps
\* exactly those whose calendar date lies between the start and the end of
\* the range, both included, whatever the time of day: a row at 00:00 on
\* the end date is kept, a row at 00:00 on the day after is dropped.
C15_DateInclusive ==
    Filtered =>
        \A i \in AppRows :
            PassesOthers(df[i], crit) =>
                LET day == DayNumber(df[i].datetime)
                    kept == i \in Column(base, "index")
                IN  /\ kept <=> /\ DayNumber(crit.date_range[1]) <= day
                                /\ day <= DayNumber(crit.date_range[2])
                    /\ day = DayNumber(crit.date_range[2]) => kept
                    /\ day = DayNumber(crit.date_range[1]) => kept
                    /\ day = DayNumber(crit.date_range[2]) + 1 => ~kept

\* the range is January 18 alone: the row of 00:00 on January 18 is kept,
\* the row of 00:00 on January 19 is dropped
C15_Witness ==
    /\ pc = "view"
    /\ crit.date_range = <<(<<2026, 1, 18>>), (<<2026, 1, 18>>)>>
    /\ \E i \in AppRows, j \in AppRows :
          /\ df[i].datetime = <<2026, 1, 18, 0, 0>>
          /\ i \in Column(base, "index")
          /\ df[j].datetime = <<2026, 1, 19, 0, 0>>
          /\ PassesOthers(df[j], crit)
          /\ j \notin Column(base, "index")

\* the row passes the criteria other than the temperature range
PassesAllButTemp(r, c) ==
    /\ PassesCamera(r, c)
    /\ PassesSection(r, c)
    /\ PassesDate(r, c)
    /\ PassesSpecies(r, c)

\* C16: of the rows that pass the other criteria, the temperature filter,
\* when a temperature range is set, keeps exactly the rows that have a
\* temperature between the two bounds, both included, and so drops every
\* row without a temperature; when no temperature range is set it keeps
\* them all, the rows without a temperature included.
C16_TempInclusiveNullDropped ==
    Filtered =>
        \A i \in AppRows :
            PassesAllButTemp(df[i], crit) =>
                LET kept == i \in Column(base, "index")
                    t == df[i].temp_f
                IN  IF crit.temp_range = Null THEN kept
                    ELSE /\ t = Null => ~kept
                         /\ t # Null =>
                               /\ kept <=> /\ crit.temp_range[1] <= t[1]
                                           /\ t[1] <= crit.temp_range[2]
                               /\ t[1] \in {crit.temp_range[1], crit.temp_range[2]} => kept

\* the range is 47 to 47: a row of 47 degrees is kept and a row without a
\* temperature, which passes the other criteria, is dropped
C16_Witness ==
    /\ pc = "view"
    /\ crit.temp_range = <<47, 47>>
    /\ \E i \in AppRows, j \in AppRows :
          /\ df[i].temp_f = <<47>>
          /\ i \in Column(base, "index")
          /\ df[j].temp_f = Null
          /\ PassesAllButTemp(df[j], crit)
          /\ j \notin Column(base, "index")

\* the category of a row of the normalized table
Category(r) ==
    IF r.event_type = ANIMAL THEN "wildlife"
    ELSE IF r.event_type = HUMAN THEN "human"
    ELSE IF r.event_type = VEHICLE THEN "vehicle"
    ELSE "unknown"

SectionCategory(section) ==
    IF section = "Wildlife" THEN "wildlife"
    ELSE IF section = "People" THEN "human"
    ELSE "vehicle"

\* C18: every row of the section result has the category of the section
\* (Wildlife: wildlife, People: human, Vehicles: vehicle); a row of unknown
\* category, whose event type and species are both empty, is in no section
\* result and is still a row of the normalized table.
C18_SectionPurity ==
    Filtered =>
        /\ \A k \in BaseRows : Category(base[k]) = SectionCategory(crit.section)
        /\ Len(df) = Len(raw)
        /\ \A i \in AppRows :
               (Canon(raw[i].event_type) = EMPTY /\ Canon(raw[i].species) = EMPTY) =>
                   /\ Category(df[i]) = "unknown"
                   /\ i \notin Column(base, "index")

\* a section shows a row while the table holds a row of unknown category
\* that passes every criterion but the section
C18_Witness ==
    /\ pc = "view"
    /\ \E i \in AppRows :
          /\ raw[i].event_type = EMPTY
          /\ raw[i].species = EMPTY
          /\ df[i].event_type = EMPTY
          /\ PassesCamera(df[i], crit) /\ PassesDate(df[i], crit) /\ PassesTemp(df[i], crit)
          /\ i \notin Column(base, "index")

\* the rows the aggregates that need no time would count: the rows that
\* pass the camera, section, temperature and species criteria and that have
\* no timestamp or a date in the range
CountedWithoutTime ==
    {i \in AppRows :
        /\ PassesCamera(df[i], crit)
        /\ PassesSection(df[i], crit)
        /\ PassesTemp(df[i], crit)
        /\ PassesSpecies(df[i], crit)
        /\ df[i].datetime = Null \/ PassesDate(df[i], crit)}

\* C19: a row whose date and time cannot be parsed has a null timestamp and
\* is not among the rows selected by date, but it is counted in the
\* Sightings and Cameras figures, and a table with such rows, even with no
\* other row, still gets to the sidebar and the view.
C19_NullTimestampStillCounted ==
    /\ pc # "no_data"
    /\ Filtered =>
          /\ \A k \in BaseRows : base[k].datetime # Null
          /\ Sightings(base) = Cardinality(CountedWithoutTime)
          /\ Cameras(base) = Cardinality({df[i].camera : i \in CountedWithoutTime})

\* the cell is an unsigned decimal number
IsNumber(cell) == cell # EMPTY /\ \A k \in 1..Len(cell) : cell[k] \in {"0", "1", "2", "3", "4", "5", "6", "7", "8", "9"}

\* C20: prep_df is defined on every table and returns one row for every
\* row of the table, in the order of the table; a date and time that cannot
\* be parsed give a null timestamp, and a temp_f, moon_illumination or
\* moon_age_days cell that is not a number gives a null value, in that row.
C20_OneRowPerRowNullOnMalformed ==
    /\ out = <<>> => DOMAIN prep_df(raw) = DOMAIN raw
    /\ Prepped =>
          /\ Len(out) = Len(raw)
          /\ \A i \in 1..Len(raw) :
                /\ out[i].date = raw[i].date
                /\ out[i].time = raw[i].time
                /\ out[i].filename = Strip(raw[i].filename)
                /\ (raw[i].date \in {BAD_DATE, EMPTY} \/ raw[i].time \in {BAD_TIME, EMPTY})
                       => out[i].datetime = Null
                /\ (raw[i].date = JAN_18 /\ raw[i].time = PM_0357)
                       => out[i].datetime = <<2026, 1, 18, 15, 57>>
                /\ \A f \in {"temp_f", "moon_illumination", "moon_age_days"} \cap DOMAIN raw[i] :
                       IF IsNumber(raw[i][f]) THEN out[i][f] # Null ELSE out[i][f] = Null

\* a row in which no cell can be parsed keeps its place before a good row
C20_Witness ==
    /\ Prepped
    /\ Len(raw) = 2
    /\ raw[1].date = BAD_DATE /\ raw[1].temp_f = NOT_A_NUMBER
    /\ out[1].date = BAD_DATE
    /\ out[1].datetime = Null /\ out[1].temp_f = Null
    /\ out[1].moon_illumination = Null /\ out[1].moon_age_days = Null
    /\ raw[2] = GoodRow
    /\ out[2].datetime # Null /\ out[2].temp_f = <<47>>
    /\ out[2].moon_illumination = <<98>> /\ out[2].moon_age_days = <<14>>

Rendered == ui # Null

\* C17: in the Wildlife section with include_other false, the gallery holds
\* exactly the rows with a timestamp whose label is not "Other" (as many as
\* the table has), and no view holds a row labelled "Other": not the
\* gallery, not the two pattern charts, not their colour scale.
C17_NoOtherInWildlifeViews ==
    (Rendered /\ widgets.section = "Wildlife" /\ ~widgets.include_other) =>
        /\ Len(ui.listing.view) =
               Cardinality({i \in PrepRows : /\ out[i].datetime # Null
                                             /\ out[i].wildlife_label # OTHER_LABEL})
        /\ \A k \in 1..Len(ui.listing.view) : ui.listing.view[k].wildlife_label # OTHER_LABEL
        /\ \A g \in ui.patterns.by_time \cup ui.patterns.by_day : g[2] # OTHER_LABEL
        /\ \A k \in 1..Len(ui.patterns.domain) : ui.patterns.domain[k] # OTHER_LABEL

\* the default of a column: the empty string for a text column, null for a
\* numeric column
DefaultOf(f) == IF f \in {"temp_f", "moon_illumination", "moon_age_days"} THEN Null ELSE EMPTY

\* table t, with column order cols, holds every column of the set expected,
\* a column that the table as read lacks with its default in every row, and
\* the columns of the table as read come first, in the order they had
Coerced(t, cols, expected) ==
    /\ \A i \in 1..Len(t) :
          /\ \A f \in expected :
                /\ f \in DOMAIN t[i]
                /\ f \notin DOMAIN raw[i] => t[i][f] = DefaultOf(f)
          /\ DOMAIN raw[i] \subseteq DOMAIN t[i]
    /\ Len(columns.raw) <= Len(cols)
    /\ SubSeq(cols, 1, Len(columns.raw)) = columns.raw

AppCoerced ==
    pc = "columns" =>
        Coerced(df, columns.df,
                {"camera", "date", "time", "event_type", "species", "filename", "temp_f"})

PrepCoerced == Prepped => Coerced(out, columns.out, PrepColumns)

\* C21: once the columns are normalized (in the load pipeline of
\* streamlit_app.py, and in prep_df), every expected column is in the table,
\* a column the input lacked holds its default in every row (the empty
\* string, null for temp_f, moon_illumination and moon_age_days), and every
\* column of the input is still there, in the position it had.
C21_SchemaCoercion == AppCoerced /\ PrepCoerced

\* the moon_phase cell of a row of the table as read, empty when the table
\* has no such column, trimmed and lowercased
MoonKey(i) == Canon(Get(raw[i], "moon_phase", EMPTY))

\* the rows of prep_df carry the canonical name and its glyph for a known
\* spelling, and the title-cased cell for any other non-empty cell
MoonKnownAndOther ==
    Prepped =>
        \A i \in PrepRows :
            /\ (MoonKey(i) # EMPTY /\ MoonPhaseOf(MoonKey(i)) # 0) =>
                  /\ out[i].moon_phase_clean = MoonNames[MoonPhaseOf(MoonKey(i))]
                  /\ out[i].moon_emoji = MoonGlyphs[MoonPhaseOf(MoonKey(i))]
            /\ (MoonKey(i) # EMPTY /\ MoonPhaseOf(MoonKey(i)) = 0) =>
                  out[i].moon_phase_clean = Title(Strip(raw[i].moon_phase))
            /\ MoonKey(i) = EMPTY => out[i].moon_phase_clean = EMPTY

\* C22: in the table of prep_df, an empty or missing moon_phase gives an
\* empty moon_phase_clean and an empty moon_emoji; a known spelling gives
\* its canonical name and the glyph of that name, so that spellings of one
\* name share a glyph; any other cell gives its title-cased form.
C22_MoonPhase ==
    /\ MoonKnownAndOther
    /\ Prepped =>
          \A i \in PrepRows : MoonKey(i) = EMPTY => out[i].moon_emoji = EMPTY

\* the links <<url, id>> of the files of the Drive that are in a camera
\* folder named cam and are named fn, letter for letter
Matches(cam, fn) ==
    LET cams == ListPage(drive.folders, drive.camera_root, 0).files
        Files(folder) == AllPages(drive.files[folder])
    IN  UNION { { <<Files(cams[k].id)[j].webViewLink, Files(cams[k].id)[j].id>> :
                    j \in {j \in 1..Len(Files(cams[k].id)) : Files(cams[k].id)[j].name = fn} } :
                k \in {k \in 1..Len(cams) : cams[k].name = cam} }

\* link is what the resolution of (cam, fn) has to return
Resolved(link, cam, fn) ==
    IF cam # EMPTY /\ fn # EMPTY /\ Matches(cam, fn) # {} THEN link \in Matches(cam, fn)
    ELSE link = <<EMPTY, EMPTY>>

\* the resolution of the cards of the gallery (drive_io.py)
CardsResolved ==
    Rendered =>
        \A k \in 1..Len(ui.listing.cards) :
            Resolved(<<ui.listing.cards[k].url, ui.listing.cards[k].fid>>,
                     ui.listing.view[k].camera, ui.listing.view[k].filename)

\* C23: the resolution of an event gives the link and the id of the file of
\* the Drive whose camera folder and file name are the trimmed camera and
\* file name of the event, letter for letter and case for case, and the
\* empty pair when the Drive has no such file or when the camera or the
\* file name is blank: in the gallery of ui_components.py and in the photo
\* viewer of streamlit_app.py.
C23_ExactMatchResolution ==
    /\ CardsResolved
    /\ pc = "shown" =>
          Resolved(<<page.url, page.fid>>, Strip(raw[page.chosen].camera),
                   Strip(raw[page.chosen].filename))

\* C24: a download that fails is confined to its item. In the gallery,
\* load_thumbnail_cached returns None for the file and its card shows the
\* placeholder; the gallery still has one card for each of its first rows,
\* every card with the label and the link of its row, and every card whose
\* file was loaded shows its image, also when an earlier download of that
\* file had failed. In the photo viewer the failure shows as an error
\* message in place of the preview, with the link of the sighting.
C24_DownloadFailureConfined ==
    /\ Rendered =>
          LET cards == ui.listing.cards
              view == ui.listing.view
          IN  /\ Len(cards) = IF Len(view) < gallery_limit THEN Len(view)
                              ELSE gallery_limit
              /\ \A k \in 1..Len(cards) :
                    /\ cards[k].label = view[k].wildlife_label
                    /\ Resolved(<<cards[k].url, cards[k].fid>>, view[k].camera, view[k].filename)
                    /\ cards[k].fid # EMPTY => cards[k].fid \in DOMAIN session.cache
                    /\ cards[k].thumbnail =
                           IF cards[k].fid # EMPTY /\ session.cache[cards[k].fid]
                           THEN "image" ELSE "placeholder"
              /\ \A f \in DOMAIN session.cache : ~session.cache[f] => f \in session.failed
    /\ pc = "shown" =>
          /\ page.preview = "none" <=> page.fid = EMPTY
          /\ page.preview = "error" => page.url # EMPTY

\* two cards: the download of the first photo has failed and its card shows
\* the placeholder, the second card shows its image although a download of
\* it had failed before; the preview of the photo viewer has failed as well
C24_Witness ==
    /\ Rendered
    /\ pc = "shown"
    /\ page.preview = "error"
    /\ Len(ui.listing.cards) = 2
    /\ ui.listing.cards[1].fid # EMPTY
    /\ ui.listing.cards[1].thumbnail = "placeholder"
    /\ ui.listing.cards[1].url # EMPTY
    /\ ui.listing.cards[2].thumbnail = "image"
    /\ ui.listing.cards[2].fid \in session.failed


\* the filter chain leaves the normalized table of the script as it was
FiltersLeaveTable ==
    [][ApplyFilters => df' = df /\ columns' = columns]_vars

\* C25: filtering and presentation never change the table they are given:
\* the filter chain leaves the normalized table as it was, and the frame
\* passed to render_patterns and render_listing_and_viewer has, after the
\* call, the columns and the values it had before.
C25_NoMutation ==
    [][/\ ApplyFilters => df' = df /\ columns' = columns
       /\ Render =>
             /\ Len(ui'.patterns.base) = Len(out)
             /\ \A i \in 1..Len(out) :
                   /\ DOMAIN ui'.patterns.base[i] = DOMAIN out[i]
                   /\ \A f \in DOMAIN out[i] : ui'.patterns.base[i][f] = out[i][f]]_vars


\* the charts of the dashboard have been drawn for the Wildlife section
Charted == pc = "shown" /\ widgets.section = "Wildlife"

\* a chart keeps a bucket for each of its n most frequent species, folds
\* every other species into "Other", and has every row in one bucket
FoldsOutsideTop(frame, top, n) ==
    /\ top \in TopSpecies(frame, n)
    /\ \A i \in 1..Len(frame) :
          /\ frame[i].species \in top => frame[i].species_group = frame[i].species
          /\ frame[i].species \notin top \cup {EMPTY} => frame[i].species_group = OTHER_LABEL
TopNFolding ==
    Charted =>
       /\ FoldsOutsideTop(page.chart_df, page.chart_top, TimelineTop)
       /\ FoldsOutsideTop(page.patt, page.patt_top, PatternsTop)
       /\ \A h \in {g[1] : g \in page.by_hour} :
             LET RECURSIVE Sum(_)
                 Sum(S) == IF S = {} THEN 0
                           ELSE LET g == CHOOSE x \in S : TRUE IN g[3] + Sum(S \ {g})
             IN  Sum({g \in page.by_hour : g[1] = h})
                   = Cardinality({i \in 1..Len(page.patt) : page.patt[i].hour = h})

\* a row without a usable species is in a bucket of its own, apart from the
\* species folded for being outside the top n
SentinelApart(frame) ==
    \A i, j \in 1..Len(frame) :
       frame[i].species = EMPTY /\ frame[j].species # EMPTY
          => frame[i].species_group # frame[j].species_group

\* C26: top-N collapsing (10 species for the timeline, 8 for the pattern
\* charts) keeps a bucket for each of the N most frequent species, folds
\* every other species into a display bucket "Other", counts every row in
\* one bucket, and keeps the rows without a usable species label out of the
\* bucket of the folded species.
C26_TopNBucketDistinct ==
    /\ TopNFolding
    /\ Charted => SentinelApart(page.chart_df) /\ SentinelApart(page.patt)

\* species were folded in both charts
Folded ==
    /\ Charted
    /\ \E i \in 1..Len(page.chart_df) :
          page.chart_df[i].species # EMPTY /\ page.chart_df[i].species_group = OTHER_LABEL
    /\ \E i \in 1..Len(page.patt) :
          page.patt[i].species # EMPTY /\ page.patt[i].species_group = OTHER_LABEL


\* the granularity of the time blocks chosen in the sidebar
Granularity ==
    IF widgets.time_gran = "Hour" THEN 1 ELSE IF widgets.time_gran = "2-hour" THEN 2 ELSE 4

\* C27: the time_bin of a sighting is (hour div g) * g for the granularity g
\* of the sidebar, 1, 2 or 4: it is a multiple of g in 0..23 with
\* bucket <= hour < bucket + g, and two sightings have the same time_bin
\* exactly when their hours have the same quotient by g.
C27_TimeBucket ==
    Rendered =>
       LET b == ui.patterns.base
           g == Granularity
           hour(i) == out[i].datetime[4]
           bin(i) == b[i].time_bin[1]
       IN  \A i \in 1..Len(b) :
              /\ hour(i) \in 0..23
              /\ b[i].time_bin = <<(hour(i) \div g) * g>>
              /\ bin(i) \in 0..23
              /\ bin(i) % g = 0
              /\ bin(i) <= hour(i) /\ hour(i) < bin(i) + g
              /\ \A j \in 1..Len(b) :
                    bin(i) = bin(j) <=> hour(i) \div g = hour(j) \div g

\* the last hour of the day in a four-hour block, next to a sighting of
\* another block
C27_Witness ==
    /\ Rendered
    /\ Granularity = 4
    /\ Len(out) = 2
    /\ out[1].datetime[4] = 23
    /\ ui.patterns.base[1].time_bin = <<20>>
    /\ ui.patterns.base[2].time_bin # <<20>>


\* normalize_event_type returns the event type of a normalized row unchanged
EventTypeIdempotent ==
    pc = "normalized" =>
       \A i \in 1..Len(df) : normalize_event_type(df[i].event_type) = df[i].event_type

\* C28: the field normalizers are idempotent: on a row the script has
\* normalized, normalize_event_type returns the event type and
\* normalize_species returns the species unchanged, whatever the raw cells
\* were.
C28_NormalizersIdempotent ==
    /\ EventTypeIdempotent
    /\ pc = "normalized" =>
          \A i \in 1..Len(df) : normalize_species(df[i].species) = df[i].species


\* the rows that match the filters of the gallery
Matching == gallery_view(out, widgets.section, widgets.include_other)

\* the gallery shows the first gallery_limit matching rows and offers Load
\* More exactly when a matching row is not shown
GalleryPage ==
    Rendered =>
       LET listing == ui.listing
           limit == gallery_limit
       IN  /\ Len(listing.view) = Len(Matching)
           /\ limit = listing.gallery_limit
           /\ Matching # <<>> => limit >= GalleryLimit /\ limit % 8 = 0
           /\ Len(listing.cards) = IF Len(Matching) < limit THEN Len(Matching) ELSE limit
           /\ listing.load_more <=> Len(listing.cards) < Len(Matching)
           /\ listing.load_more =>
                 listing.remaining = Len(Matching) - limit /\ listing.remaining > 0

\* gallery_limit is first set to 8 and then only grows, by 8 for a click on
\* Load More
LimitStep ==
    \/ gallery_limit' = gallery_limit
    \/ gallery_limit = 0 /\ gallery_limit' = GalleryLimit
    \/ /\ Rendered /\ ui.listing.load_more
       /\ gallery_limit' = gallery_limit + 8

\* every matching row is shown
AllShown == Rendered /\ Len(ui.listing.cards) = Len(Matching)

\* C29: gallery pagination. Across renders, switches of the filter and
\* clicks on Load More, gallery_limit starts at 8 and only grows by 8 per
\* click, the gallery shows min(gallery_limit, matching rows) cards, Load
\* More is offered exactly when a matching row is not shown, with the
\* positive count matching rows minus gallery_limit, and repeated clicks
\* lead to a page that shows every matching row.
C29_GalleryPagination ==
    /\ []GalleryPage
    /\ [][LimitStep]_vars
    /\ Rendered ~> AllShown

\* after two clicks the gallery shows all of more than sixteen matching rows,
\* with the sightings labelled "Other" switched off
C29_Witness ==
    /\ AllShown
    /\ Len(Matching) > 16
    /\ gallery_limit = 24
    /\ ~widgets.include_other
    /\ Len(out) > Len(Matching)


\* the folders that can be reached from the root of the Drive
Reachable ==
    LET Listed(f) ==
            {e.id : e \in UNION {{p[k] : k \in 1..Len(p)} :
                                    p \in {drive.folders[f][n] : n \in 1..Len(drive.folders[f])}}}
        RECURSIVE Closure(_)
        Closure(S) ==
            LET more == S \cup UNION {Listed(f) : f \in S}
            IN  IF more = S THEN S ELSE Closure(more)
    IN  Closure({drive.root})

\* the walk so far: no folder is entered twice, the folders are listed in
\* the order of their discovery, each from its first page to its last
\* before the next one, and the path of a folder is the path of the folder
\* whose listing named it first, followed by its name there
WalkInOrder ==
    walk.phase # "idle" =>
       LET folders == walk.folders
           calls == walk.calls
           IsFirstPage(c) == c[2] = 0
           starts == SelectSeq(calls, IsFirstPage)
           Page(k) == ListPage(drive.folders, calls[k][1], calls[k][2])
           Names(k, id) == {n \in 1..Len(Page(k).files) : Page(k).files[n].id = id}
           First(S) == CHOOSE n \in S : \A m \in S : n <= m
       IN  /\ \A j, k \in 1..Len(folders) : folders[j][1] = folders[k][1] => j = k
           /\ \A j, k \in 1..Len(calls) : calls[j] = calls[k] => j = k
           /\ \A k \in 1..Len(calls) :
                 IF calls[k][2] > 0
                 THEN k > 1 /\ calls[k - 1] = <<calls[k][1], calls[k][2] - 1>>
                 ELSE k > 1 => Page(k - 1).nextPageToken = 0
           /\ Len(starts) <= Len(folders)
           /\ \A k \in 1..Len(starts) : starts[k][1] = folders[k][1]
           /\ folders[1] = <<drive.root, EMPTY>>
           /\ \A k \in 2..Len(folders) :
                 LET id == folders[k][1]
                     found == {j \in 1..Len(calls) : Names(j, id) # {}}
                     j == First(found)
                 IN  /\ found # {}
                     /\ folders[k][2] =
                           RelPath(FolderRel(folders, calls[j][1]),
                                   Page(j).files[First(Names(j, id))].name)

\* the walk at its end: every folder that can be reached was listed, each
\* once, with every page of its subfolders and every page of its files
WalkComplete ==
    walk.phase = "done" =>
       LET ids == {walk.folders[k][1] : k \in 1..Len(walk.folders)}
           Asked(log, f) == {k \in 1..Len(log) : log[k][1] = f}
       IN  /\ ids = Reachable
           /\ \A f \in ids :
                 /\ Cardinality(Asked(walk.calls, f)) = Len(drive.folders[f])
                 /\ Cardinality(Asked(walk.file_calls, f)) = Len(drive.files[f])
                 /\ \A j, k \in Asked(walk.file_calls, f) :
                       walk.file_calls[j] = walk.file_calls[k] => j = k
           /\ Len(walk.calls) = Cardinality({walk.calls[k] : k \in 1..Len(walk.calls)})

\* C30: _list_drive_files_recursive terminates on every finite folder graph
\* whose listings end, also when a folder is listed under several folders
\* or is its own descendant: every folder that can be reached from the root
\* is enqueued and listed exactly once, its path is the one of its first
\* discovery in breadth-first order, and every page of a listing is asked
\* for before the next folder is processed.
C30_WalkTerminates ==
    /\ []WalkInOrder
    /\ []WalkComplete
    /\ (pc = "valid") ~> (pc = "indexed")

\* the walk has ended on a Drive whose root lists A and C on two pages and
\* whose folder A lists C again, and the root: C keeps the path of its
\* discovery from the root
C30_Witness ==
    /\ pc = "indexed"
    /\ walk.phase = "done"
    /\ Len(drive.folders[drive.root]) = 2
    /\ drive.folders[<<"A">>] = << <<Folder("C"), Folder("R")>> >>
    /\ FolderRel(walk.folders, <<"C">>) = <<"c">>
    /\ Len(walk.folders) = 4

=============================================================================
